---- MODULE Spec2Model ----
(***************************************************************************)
(* Knowledge-graph builder (kg_model.py), evidence retriever               *)
(* (rag_engine.py) and patient data loader (data_loader.py).               *)
(*                                                                         *)
(* Text is modelled as a sequence of string tokens: an f-string is the     *)
(* concatenation of its literal pieces and of the formatted values, so a   *)
(* node id such as "P1_Outcome" is <<"P1", "_Outcome">> and a substring    *)
(* test such as ('Slow' in s) is a test on the tokens of s.  Floating      *)
(* point weight changes are kept in tenths of a kilogram.                  *)
(***************************************************************************)
EXTENDS Integers, Sequences, FiniteSets, TLC

VARIABLES csv, df, patients, G, idx, pc, qid, out, path, firstG, builds,
          batch, query, prompt, session, llm

vars == <<csv, df, patients, G, idx, pc, qid, out, path, firstG, builds,
          batch, query, prompt, session, llm>>

(* ---------------------------------------------------------------- bounds *)
\* largest number of rows of a CSV file
MaxRecords == 2
\* largest number of rows of the uploaded file in the rebuild scenario
MaxRebuildRecords == 1
\* largest number of successive builds in the rebuild scenario
MaxBuilds == 3
\* largest number of add_edge calls that make a graph for the search
MaxSearchCalls == 4
\* largest number of rows of the file of a batch
MaxBatchRecords == 2
\* largest number of reasoning lines handed to format_prompt
MaxLines == 3
\* largest number of words of a weight-change text
MaxWords == 3
\* largest number of rows of each of two files compared
MaxPairRecords == 2
\* rows of a file of a UI session
MaxSessionRecords == 2

\* Python's None
None == "None"

(* ------------------------------------------------------- sequence helpers *)
RECURSIVE Flatten(_)
Flatten(ss) == IF ss = <<>> THEN <<>> ELSE Head(ss) \o Flatten(Tail(ss))

MapSeq(F(_), s) == [k \in 1..Len(s) |-> F(s[k])]

RECURSIVE Filter(_, _)
Filter(Keep(_), s) ==
    IF s = <<>> THEN <<>>
    ELSE IF Keep(Head(s)) THEN <<Head(s)>> \o Filter(Keep, Tail(s))
         ELSE Filter(Keep, Tail(s))

Range(s) == {s[k] : k \in 1..Len(s)}

\* sep.join(items), the items being token sequences
RECURSIVE Join(_, _)
Join(items, sep) ==
    IF items = <<>> THEN <<>>
    ELSE IF Len(items) = 1 THEN Head(items)
         ELSE Head(items) \o <<sep>> \o Join(Tail(items), sep)

\* (tok in s) for a text s
Contains(s, tok) == \E k \in 1..Len(s) : s[k] = tok

(* -------------------------------------------------- attribute dictionaries *)
\* d.get(k) and d.get(k, default)
Get(d, k) == IF k \in DOMAIN d THEN d[k] ELSE None
GetOr(d, k, dflt) == IF k \in DOMAIN d THEN d[k] ELSE dflt

\* dict.update: the keys of new are written, the other keys of old are kept
DictUpdate(old, new) == new @@ old

NoAttrs == <<>>

(* ------------------------------------------------------- networkx DiGraph *)
\* node, edge: insertion order of the node and adjacency dictionaries
DiGraph == [node |-> <<>>, nattr |-> <<>>, edge |-> <<>>, eattr |-> <<>>]

Nodes(g) == Range(g.node)
Edges(g) == Range(g.edge)

has_node(g, n) == n \in Nodes(g)
has_edge(g, u, v) == <<u, v>> \in Edges(g)

\* G.add_node(n, **attrs): a new node is appended, an existing node keeps its
\* place and has its attribute dictionary updated
add_node(g, n, attrs) ==
    IF has_node(g, n)
    THEN [g EXCEPT !.nattr[n] = DictUpdate(@, attrs)]
    ELSE [g EXCEPT !.node = Append(@, n),
                   !.nattr = @ @@ (n :> attrs)]

\* the attribute dictionary of an edge that replaces the former one (not
\* what add_edge does)
add_edge_replace(g, u, v, attrs) ==
    IF has_edge(g, u, v)
    THEN [g EXCEPT !.eattr[<<u, v>>] = attrs]
    ELSE LET g1 == add_node(g, u, NoAttrs)
             g2 == add_node(g1, v, NoAttrs)
         IN [g2 EXCEPT !.edge = Append(@, <<u, v>>),
                       !.eattr = @ @@ (<<u, v>> :> attrs)]

\* G.add_edge(u, v, **attrs): an existing edge, whose end nodes exist, keeps
\* its place and has its attribute dictionary updated key by key; for a new
\* edge the missing end nodes are created and the edge is appended
add_edge(g, u, v, attrs) ==
    IF has_edge(g, u, v)
    THEN [g EXCEPT !.eattr[<<u, v>>] = DictUpdate(@, attrs)]
    ELSE LET g1 == add_node(g, u, NoAttrs)
             g2 == add_node(g1, v, NoAttrs)
         IN [g2 EXCEPT !.edge = Append(@, <<u, v>>),
                       !.eattr = @ @@ (<<u, v>> :> attrs)]

get_edge_data(g, u, v) == g.eattr[<<u, v>>]

\* G.successors(n), G.predecessors(n): in the order the edges were created
successors(g, n) ==
    LET FromN(e) == e[1] = n
        Target(e) == e[2]
    IN MapSeq(Target, Filter(FromN, g.edge))

predecessors(g, n) ==
    LET IntoN(e) == e[2] = n
        Source(e) == e[1]
    IN MapSeq(Source, Filter(IntoN, g.edge))

\* (pat in s) for a text pat of several tokens
ContainsSeq(s, pat) ==
    \E k \in 0..(Len(s) - Len(pat)) : \A j \in 1..Len(pat) : s[k + j] = pat[j]

(* ------------------------------------------------------------ CSV content *)
\* the column 'ID'.  The code never looks into an identifier, so the files are
\* taken up to a renaming of the patients: the k-th row is patient IdOrder[k]
IdOrder == <<"P1", "P2", "P3">>
PatientIds == Range(IdOrder)

\* the column 'Weight Change (COA)'
WeightTexts == {<<"-0.3", " kg (", "Slow", ")">>,
                <<"-2.0", " kg (", "Successful", ")">>,
                <<"+1.5", " kg (", "Increase", ")">>}
\* the columns 'Daily Steps (DHT)' and 'Caloric Intake (DHT)'
StepsValues == {3000, 9000}
CalorieValues == {1500, 2500}
\* the columns 'Dietary Flexibility (PPI Preference)' and
\* 'Rate of Weight Loss (PPI Preference)'
DietTexts == {<<"High", " (", "9", "/10)">>, <<"Medium", " (", "5", "/10)">>}
RateTexts == {<<"High", " (", "8", "/10)">>}

Rows == [ID : PatientIds, Weight : WeightTexts, Steps : StepsValues,
         Calories : CalorieValues, DietFlex : DietTexts, Rate : RateTexts]

\* the files of at most n rows; no ID occurs twice (the input contract of the
\* graph builder)
RECURSIVE CsvFiles(_)
CsvFiles(n) ==
    IF n = 0 THEN {<<>>}
    ELSE LET shorter == CsvFiles(n - 1)
             longest == {h \in shorter : Len(h) = n - 1}
         IN shorter \cup
            {Append(hr[1], hr[2]) :
                hr \in longest \X {r \in Rows : r.ID = IdOrder[n]}}

(* ------------------------------------------------------ PatientDataLoader *)
\* float(text) in tenths, for the numbers that occur in the weight texts
FloatTenths == ("-0.3" :> -3) @@ ("-2.0" :> -20) @@ ("+1.5" :> 15)
\* int(text) for the digits that occur in the preference texts
IntOf ==
    ("0" :> 0) @@ ("2" :> 2) @@ ("3" :> 3) @@ ("4" :> 4) @@ ("5" :> 5)
      @@ ("7" :> 7) @@ ("8" :> 8) @@ ("9" :> 9) @@ ("10" :> 10)

\* str(x) of a float kept in tenths
FormatFloat(v) ==
    LET a == IF v < 0 THEN 0 - v ELSE v
    IN (IF v < 0 THEN <<"-">> ELSE <<>>)
         \o <<ToString(a \div 10), ".", ToString(a % 10)>>

\* the keywords tested in the order Successful, Slow, Increase, Moderate
parse_weight_change_successful_first(weight_str) ==
    LET hits == {k \in 1..Len(weight_str) : weight_str[k] \in DOMAIN FloatTenths}
        first == CHOOSE k \in hits : \A j \in hits : k <= j
        value == IF hits # {} THEN FloatTenths[weight_str[first]] ELSE 0
        category ==
            IF Contains(weight_str, "Successful") THEN "Successful"
            ELSE IF Contains(weight_str, "Slow") THEN "Slow"
            ELSE IF Contains(weight_str, "Increase") THEN "Increase"
            ELSE IF Contains(weight_str, "Moderate") THEN "Moderate"
            ELSE "Unknown"
    IN <<value, category>>

parse_weight_change(weight_str) ==
    LET hits == {k \in 1..Len(weight_str) : weight_str[k] \in DOMAIN FloatTenths}
        first == CHOOSE k \in hits : \A j \in hits : k <= j
        value == IF hits # {} THEN FloatTenths[weight_str[first]] ELSE 0
        category ==
            IF Contains(weight_str, "Slow") THEN "Slow"
            ELSE IF Contains(weight_str, "Successful") THEN "Successful"
            ELSE IF Contains(weight_str, "Increase") THEN "Increase"
            ELSE IF Contains(weight_str, "Moderate") THEN "Moderate"
            ELSE "Unknown"
    IN <<value, category>>

\* a row holds the numbers as integers already
parse_numeric_with_commas(value) == value

parse_preference(pref_str) ==
    LET hits == {k \in 1..(Len(pref_str) - 2) :
                    /\ pref_str[k] = " ("
                    /\ pref_str[k + 1] \in DOMAIN IntOf
                    /\ pref_str[k + 2] = "/10)"}
        first == CHOOSE k \in hits : \A j \in hits : k <= j
        score == IF hits # {} THEN IntOf[pref_str[first + 1]] ELSE 5
        label ==
            IF ContainsSeq(pref_str, <<"Very ", "High">>) THEN "Very High"
            ELSE IF Contains(pref_str, "High") THEN "High"
            ELSE IF ContainsSeq(pref_str, <<"Medium", "-", "High">>) THEN "Medium-High"
            ELSE IF Contains(pref_str, "Medium") THEN "Medium"
            ELSE IF Contains(pref_str, "Low") THEN "Low"
            ELSE "Unknown"
    IN <<score, label>>

classify_steps(steps) ==
    IF steps < 5000 THEN "Low" ELSE IF steps < 8000 THEN "Medium" ELSE "High"

\* the thresholds taken as upper ends of Low and Medium
classify_caloric_intake_inclusive(calories) ==
    IF calories <= 1700 THEN "Low" ELSE IF calories <= 2300 THEN "Medium" ELSE "High"

classify_caloric_intake(calories) ==
    IF calories < 1700 THEN "Low" ELSE IF calories < 2300 THEN "Medium" ELSE "High"

classify_diet_flexibility(score) ==
    IF score < 4 THEN "Low" ELSE IF score < 8 THEN "Medium" ELSE "High"

\* the patient record process_data makes of one row
PatientOf(row) ==
    LET w == parse_weight_change(row.Weight)
        steps == parse_numeric_with_commas(row.Steps)
        calories == parse_numeric_with_commas(row.Calories)
        diet == parse_preference(row.DietFlex)
        rate == parse_preference(row.Rate)
    IN [id |-> row.ID,
        weight_change_value |-> w[1],
        weight_change_category |-> w[2],
        daily_steps |-> steps,
        daily_steps_class |-> classify_steps(steps),
        caloric_intake |-> calories,
        caloric_intake_class |-> classify_caloric_intake(calories),
        diet_flexibility_score |-> diet[1],
        diet_flexibility_label |-> diet[2],
        diet_flexibility_class |-> classify_diet_flexibility(diet[1]),
        weight_loss_pref_score |-> rate[1],
        weight_loss_pref_label |-> rate[2]]

process_data(rows) == MapSeq(PatientOf, rows)
(* ---------------------------------------------------- build_graph_from_csv *)
ActivityNode == <<"Activity_Level_CSV">>
CalorieNode == <<"Calorie_Intake_CSV">>
WeightMetricNode == <<"Weight_Change_Metric">>
HbA1cMetricNode == <<"HbA1c_Metric">>

PatientNode(id) == <<id>>
DietFlexPref(id) == <<id, "_DietFlexPref">>
WeightLossPref(id) == <<id, "_WeightLossPref">>
OutcomeNode(id) == <<id, "_Outcome">>

\* the shared behaviour and metric nodes
\* the shared nodes without the two Metric nodes
SharedNodes_behaviors_only(g) ==
    LET g1 == add_node(g, ActivityNode,
                 [type |-> "Behavior",
                  description |-> <<"Daily step count (from CSV)">>])
    IN add_node(g1, CalorieNode,
                 [type |-> "Behavior",
                  description |-> <<"Daily caloric intake (from CSV)">>])

SharedNodes(g) ==
    LET g1 == add_node(g, ActivityNode,
                 [type |-> "Behavior",
                  description |-> <<"Daily step count (from CSV)">>])
        g2 == add_node(g1, CalorieNode,
                 [type |-> "Behavior",
                  description |-> <<"Daily caloric intake (from CSV)">>])
        g3 == add_node(g2, WeightMetricNode,
                 [type |-> "Metric",
                  description |-> <<"Weight change over time">>])
    IN add_node(g3, HbA1cMetricNode,
                 [type |-> "Metric", description |-> <<"Glycated hemoglobin">>])

\* the nodes of a patient without the edge to the weight-loss preference
PatientNodes_one_preference(g, p) ==
    LET g1 == add_node(g, PatientNode(p.id),
                 [type |-> "Patient",
                  description |-> <<"CSV Patient: ", p.weight_change_category,
                                    " weight change">>,
                  data |-> p])
        g2 == add_node(g1, DietFlexPref(p.id),
                 [type |-> "Preference",
                  description |-> <<"Dietary flexibility preference: ",
                                    p.diet_flexibility_label>>,
                  score |-> p.diet_flexibility_score])
        g3 == add_node(g2, WeightLossPref(p.id),
                 [type |-> "Preference",
                  description |-> <<"Weight loss rate preference: ",
                                    p.weight_loss_pref_label>>,
                  score |-> p.weight_loss_pref_score])
        g4 == add_node(g3, OutcomeNode(p.id),
                 [type |-> "Outcome",
                  description |-> <<p.weight_change_category, " weight change: ">>
                                    \o FormatFloat(p.weight_change_value)
                                    \o <<" kg">>,
                  weight_change |-> p.weight_change_value,
                  category |-> p.weight_change_category])
        g5 == add_edge(g4, PatientNode(p.id), DietFlexPref(p.id),
                 [relation |-> "has_preference"])
    IN add_edge(g5, PatientNode(p.id), OutcomeNode(p.id),
                 [relation |-> "experiences"])

\* the patient node, the preference nodes, the outcome node and their edges
PatientNodes(g, p) ==
    LET g1 == add_node(g, PatientNode(p.id),
                 [type |-> "Patient",
                  description |-> <<"CSV Patient: ", p.weight_change_category,
                                    " weight change">>,
                  data |-> p])
        g2 == add_node(g1, DietFlexPref(p.id),
                 [type |-> "Preference",
                  description |-> <<"Dietary flexibility preference: ",
                                    p.diet_flexibility_label>>,
                  score |-> p.diet_flexibility_score])
        g3 == add_node(g2, WeightLossPref(p.id),
                 [type |-> "Preference",
                  description |-> <<"Weight loss rate preference: ",
                                    p.weight_loss_pref_label>>,
                  score |-> p.weight_loss_pref_score])
        g4 == add_node(g3, OutcomeNode(p.id),
                 [type |-> "Outcome",
                  description |-> <<p.weight_change_category, " weight change: ">>
                                    \o FormatFloat(p.weight_change_value)
                                    \o <<" kg">>,
                  weight_change |-> p.weight_change_value,
                  category |-> p.weight_change_category])
        g5 == add_edge(g4, PatientNode(p.id), DietFlexPref(p.id),
                 [relation |-> "has_preference"])
        g6 == add_edge(g5, PatientNode(p.id), WeightLossPref(p.id),
                 [relation |-> "has_preference"])
    IN add_edge(g6, PatientNode(p.id), OutcomeNode(p.id),
                 [relation |-> "experiences"])

\* the conditions of the four rules
R1(p) == p.diet_flexibility_class = "High" /\ p.caloric_intake_class = "High"
R2(p) == p.daily_steps_class = "High" /\ p.caloric_intake_class = "Low"
R3(p) == p.daily_steps_class = "Low" /\ p.caloric_intake_class = "High"
R4(p) == p.daily_steps_class = "High"
         /\ p.weight_change_category \in {"Slow", "Increase"}

R1Reason(p) ==
    <<"High flexibility (", ToString(p.diet_flexibility_score),
      "/10) correlates with high intake (", ToString(p.caloric_intake), " cal)">>
R1Effect(p) == IF p.weight_change_value < -10 THEN "negative" ELSE "neutral"
R2Reason(p) ==
    <<"High activity (", ToString(p.daily_steps), " steps) with controlled intake">>
R3ActivityReason(p) ==
    <<"Low activity (", ToString(p.daily_steps), " steps) cannot offset high intake">>
R3CalorieReason(p) ==
    <<"High intake (", ToString(p.caloric_intake), " cal) dominates outcome">>
R4Reason == <<"High caloric intake negates exercise benefits">>

\* R1 without its conflict edge
Rule1_no_conflict(g, p) ==
    IF R1(p)
    THEN add_edge(g, CalorieNode, OutcomeNode(p.id),
                  [relation |-> "influences", effect |-> R1Effect(p)])
    ELSE g

\* R1 whose conflict edge has no reason
Rule1_no_reason(g, p) ==
    IF R1(p)
    THEN LET g1 == add_edge(g, DietFlexPref(p.id), CalorieNode,
                      [relation |-> "conflicts_with"])
         IN add_edge(g1, CalorieNode, OutcomeNode(p.id),
                      [relation |-> "influences", effect |-> R1Effect(p)])
    ELSE g

Rule1(g, p) ==
    IF R1(p)
    THEN LET g1 == add_edge(g, DietFlexPref(p.id), CalorieNode,
                      [relation |-> "conflicts_with", reason |-> R1Reason(p)])
         IN add_edge(g1, CalorieNode, OutcomeNode(p.id),
                      [relation |-> "influences", effect |-> R1Effect(p)])
    ELSE g

Rule2(g, p) ==
    IF R2(p)
    THEN add_edge(g, ActivityNode, OutcomeNode(p.id),
                  [relation |-> "strongly_supports", reason |-> R2Reason(p)])
    ELSE g

\* R3 without its second edge
Rule3_activity_only(g, p) ==
    IF R3(p)
    THEN add_edge(g, ActivityNode, OutcomeNode(p.id),
                  [relation |-> "insufficient", reason |-> R3ActivityReason(p)])
    ELSE g

\* R3 that states a conflict of the preference as R1 does
Rule3_with_conflict(g, p) ==
    IF R3(p)
    THEN LET g0 == add_edge(g, DietFlexPref(p.id), CalorieNode,
                      [relation |-> "conflicts_with", reason |-> R1Reason(p)])
             g1 == add_edge(g0, ActivityNode, OutcomeNode(p.id),
                      [relation |-> "insufficient",
                       reason |-> R3ActivityReason(p)])
         IN add_edge(g1, CalorieNode, OutcomeNode(p.id),
                      [relation |-> "dominates", reason |-> R3CalorieReason(p)])
    ELSE g

Rule3(g, p) ==
    IF R3(p)
    THEN LET g1 == add_edge(g, ActivityNode, OutcomeNode(p.id),
                      [relation |-> "insufficient",
                       reason |-> R3ActivityReason(p)])
         IN add_edge(g1, CalorieNode, OutcomeNode(p.id),
                      [relation |-> "dominates", reason |-> R3CalorieReason(p)])
    ELSE g

Rule4(g, p) ==
    IF R4(p)
    THEN add_edge(g, CalorieNode, OutcomeNode(p.id),
                  [relation |-> "compensates_for", reason |-> R4Reason])
    ELSE g

\* the rules in the order R4, R1, R2, R3
LoopBody_R4_first(g, p) ==
    Rule3(Rule2(Rule1(Rule4(PatientNodes(g, p), p), p), p), p)

\* the rules as branches of one if / elif chain: the first that fires only
LoopBody_first_match(g, p) ==
    LET g0 == PatientNodes(g, p)
    IN IF R1(p) THEN Rule1(g0, p)
       ELSE IF R2(p) THEN Rule2(g0, p)
       ELSE IF R3(p) THEN Rule3(g0, p)
       ELSE Rule4(g0, p)

\* one pass of the loop over the patients
LoopBody(g, p) == Rule4(Rule3(Rule2(Rule1(PatientNodes(g, p), p), p), p), p)
(* ------------------------------------------------------------- build_graph *)
\* the add_node and add_edge calls of build_graph, in the order of the source
HardcodedCalls ==
    <<[op |-> "node", n |-> <<"Weight_Metric">>,
       attrs |-> [type |-> "Metric", description |-> <<"Body Weight">>]],
      [op |-> "node", n |-> <<"BMI">>,
       attrs |-> [type |-> "Metric", description |-> <<"Body Mass Index">>]],
      [op |-> "node", n |-> <<"Stress_Score">>,
       attrs |-> [type |-> "Metric", description |-> <<"Self-reported stress level">>]],
      [op |-> "node", n |-> <<"Calorie_Intake">>,
       attrs |-> [type |-> "Behavior", description |-> <<"Daily caloric consumption">>]],
      [op |-> "node", n |-> <<"Activity_Level">>,
       attrs |-> [type |-> "Behavior", description |-> <<"Daily step count">>]],
      [op |-> "node", n |-> <<"Sleep_Quality">>,
       attrs |-> [type |-> "Behavior", description |-> <<"Sleep duration and quality">>]],
      [op |-> "node", n |-> <<"Patient_A">>,
       attrs |-> [type |-> "Patient", description |-> <<"Patient with slow weight loss">>]],
      [op |-> "node", n |-> <<"Diet_Flexibility_Preference">>,
       attrs |-> [type |-> "Preference", description |-> <<"Preference for flexible diet choices">>]],
      [op |-> "node", n |-> <<"Rate_of_Loss_Preference_A">>,
       attrs |-> [type |-> "Preference", description |-> <<"Preference for rapid weight loss">>]],
      [op |-> "node", n |-> <<"Slow", "_Weight_Loss_A">>,
       attrs |-> [type |-> "Outcome", description |-> <<"Weight loss < 0.5kg/week">>]],
      [op |-> "node", n |-> <<"High_Stress_A">>,
       attrs |-> [type |-> "Outcome", description |-> <<"Stress score > 7/10">>]],
      [op |-> "edge", u |-> <<"Patient_A">>, v |-> <<"Slow", "_Weight_Loss_A">>,
       attrs |-> [relation |-> "experiences"]],
      [op |-> "edge", u |-> <<"Patient_A">>, v |-> <<"High_Stress_A">>,
       attrs |-> [relation |-> "experiences"]],
      [op |-> "edge", u |-> <<"Patient_A">>, v |-> <<"Diet_Flexibility_Preference">>,
       attrs |-> [relation |-> "has_preference"]],
      [op |-> "edge", u |-> <<"Patient_A">>, v |-> <<"Rate_of_Loss_Preference_A">>,
       attrs |-> [relation |-> "has_preference"]],
      [op |-> "edge", u |-> <<"Diet_Flexibility_Preference">>, v |-> <<"Calorie_Intake">>,
       attrs |-> [relation |-> "conflicts_with", reason |-> <<"Flexible dieting often leads to underestimation of calories">>]],
      [op |-> "edge", u |-> <<"Calorie_Intake">>, v |-> <<"Slow", "_Weight_Loss_A">>,
       attrs |-> [relation |-> "influences", effect |-> "positive_correlation"]],
      [op |-> "edge", u |-> <<"Activity_Level">>, v |-> <<"Slow", "_Weight_Loss_A">>,
       attrs |-> [relation |-> "mitigates"]],
      [op |-> "edge", u |-> <<"High_Stress_A">>, v |-> <<"Calorie_Intake">>,
       attrs |-> [relation |-> "increases"]],
      [op |-> "node", n |-> <<"Patient_B">>,
       attrs |-> [type |-> "Patient", description |-> <<"High activity but poor weight loss due to stress eating">>]],
      [op |-> "node", n |-> <<"Exercise_Preference">>,
       attrs |-> [type |-> "Preference", description |-> <<"Strong preference for exercise-based weight loss">>]],
      [op |-> "node", n |-> <<"Minimal_Diet_Preference">>,
       attrs |-> [type |-> "Preference", description |-> <<"Prefers not to restrict diet">>]],
      [op |-> "node", n |-> <<"Slow", "_Weight_Loss_B">>,
       attrs |-> [type |-> "Outcome", description |-> <<"Weight loss < 0.5kg/week despite high activity">>]],
      [op |-> "node", n |-> <<"High_Stress_B">>,
       attrs |-> [type |-> "Outcome", description |-> <<"Work-related stress">>]],
      [op |-> "edge", u |-> <<"Patient_B">>, v |-> <<"Slow", "_Weight_Loss_B">>,
       attrs |-> [relation |-> "experiences"]],
      [op |-> "edge", u |-> <<"Patient_B">>, v |-> <<"High_Stress_B">>,
       attrs |-> [relation |-> "experiences"]],
      [op |-> "edge", u |-> <<"Patient_B">>, v |-> <<"Exercise_Preference">>,
       attrs |-> [relation |-> "has_preference"]],
      [op |-> "edge", u |-> <<"Patient_B">>, v |-> <<"Minimal_Diet_Preference">>,
       attrs |-> [relation |-> "has_preference"]],
      [op |-> "edge", u |-> <<"Minimal_Diet_Preference">>, v |-> <<"Calorie_Intake">>,
       attrs |-> [relation |-> "conflicts_with", reason |-> <<"Avoiding diet control leads to compensatory eating after exercise">>]],
      [op |-> "edge", u |-> <<"High_Stress_B">>, v |-> <<"Calorie_Intake">>,
       attrs |-> [relation |-> "increases"]],
      [op |-> "edge", u |-> <<"Calorie_Intake">>, v |-> <<"Slow", "_Weight_Loss_B">>,
       attrs |-> [relation |-> "influences", effect |-> "positive_correlation"]],
      [op |-> "edge", u |-> <<"Activity_Level">>, v |-> <<"Slow", "_Weight_Loss_B">>,
       attrs |-> [relation |-> "mitigates"]],
      [op |-> "node", n |-> <<"Patient_C">>,
       attrs |-> [type |-> "Patient", description |-> <<"Good adherence but weight loss plateau">>]],
      [op |-> "node", n |-> <<"Strict_Adherence_Preference">>,
       attrs |-> [type |-> "Preference", description |-> <<"Prefers strict, consistent routine">>]],
      [op |-> "node", n |-> <<"Weight_Plateau">>,
       attrs |-> [type |-> "Outcome", description |-> <<"No weight loss for 4+ weeks">>]],
      [op |-> "node", n |-> <<"Good_Adherence">>,
       attrs |-> [type |-> "Outcome", description |-> <<"95%+ adherence to plan">>]],
      [op |-> "node", n |-> <<"Metabolic_Adaptation">>,
       attrs |-> [type |-> "Behavior", description |-> <<"Body adapted to current calorie deficit">>]],
      [op |-> "edge", u |-> <<"Patient_C">>, v |-> <<"Weight_Plateau">>,
       attrs |-> [relation |-> "experiences"]],
      [op |-> "edge", u |-> <<"Patient_C">>, v |-> <<"Good_Adherence">>,
       attrs |-> [relation |-> "experiences"]],
      [op |-> "edge", u |-> <<"Patient_C">>, v |-> <<"Strict_Adherence_Preference">>,
       attrs |-> [relation |-> "has_preference"]],
      [op |-> "edge", u |-> <<"Strict_Adherence_Preference">>, v |-> <<"Metabolic_Adaptation">>,
       attrs |-> [relation |-> "conflicts_with", reason |-> <<"Lack of variation allows metabolic adaptation to occur">>]],
      [op |-> "edge", u |-> <<"Metabolic_Adaptation">>, v |-> <<"Weight_Plateau">>,
       attrs |-> [relation |-> "causes"]],
      [op |-> "edge", u |-> <<"Good_Adherence">>, v |-> <<"Weight_Plateau">>,
       attrs |-> [relation |-> "insufficient_for_progress"]]>>

\* the calls with the end nodes of an edge exchanged
ApplyCall_edge_reversed(g, c) ==
    IF c.op = "node" THEN add_node(g, c.n, c.attrs)
    ELSE add_edge(g, c.v, c.u, c.attrs)

\* one call of build_graph
ApplyCall(g, c) ==
    IF c.op = "node" THEN add_node(g, c.n, c.attrs)
    ELSE add_edge(g, c.u, c.v, c.attrs)

ScenarioPatients == {<<"Patient_A">>, <<"Patient_B">>, <<"Patient_C">>}
(* -------------------------------------------------------- retrieve_context *)
NodeType(g, n) == Get(g.nattr[n], "type")

NotFoundLine(patient_id) ==
    <<"Patient ">> \o patient_id \o <<" not found in knowledge graph.">>

\* the line without the outcomes
AnalyzingLine_no_outcomes(patient_id, outcomes) ==
    <<"Analyzing ">> \o patient_id \o <<".">>

AnalyzingLine(patient_id, outcomes) ==
    <<"Analyzing ">> \o patient_id \o <<" who is experiencing: ">>
      \o Join(outcomes, ", ") \o <<".">>

FallbackLine ==
    <<"No direct preference-behavior conflicts detected. Analyzing other factors...">>

\* the outcomes of all the patients of the graph
OutcomesOf_all_patients(g, patient_id) ==
    LET IsOutcome(n) == NodeType(g, n) = "Outcome"
    IN Filter(IsOutcome, g.node)

OutcomesOf(g, patient_id) ==
    LET IsOutcome(n) == NodeType(g, n) = "Outcome"
    IN Filter(IsOutcome, successors(g, patient_id))

PreferencesOf(g, patient_id) ==
    LET IsPreference(n) == NodeType(g, n) = "Preference"
    IN Filter(IsPreference, successors(g, patient_id))

\* the triples of loops nested outcome, preference, neighbor
ConflictPaths_outcome_outermost(g, patient_id) ==
    LET OfOutcome(outcome) ==
            LET OfPref(pref) ==
                    LET Conflict(neighbor) ==
                            /\ Get(get_edge_data(g, pref, neighbor), "relation")
                                  = "conflicts_with"
                            /\ has_edge(g, neighbor, outcome)
                        Triple(neighbor) == <<pref, neighbor, outcome>>
                    IN MapSeq(Triple, Filter(Conflict, successors(g, pref)))
            IN Flatten(MapSeq(OfPref, PreferencesOf(g, patient_id)))
    IN Flatten(MapSeq(OfOutcome, OutcomesOf(g, patient_id)))

\* the (preference, conflict node, outcome) triples of the nested loops, in
\* the order the loops visit them
ConflictPaths(g, patient_id) ==
    LET outcomes == OutcomesOf(g, patient_id)
        OfNeighbor(pref, neighbor) ==
            LET Reached(outcome) == has_edge(g, neighbor, outcome)
                Triple(outcome) == <<pref, neighbor, outcome>>
            IN IF Get(get_edge_data(g, pref, neighbor), "relation") = "conflicts_with"
               THEN MapSeq(Triple, Filter(Reached, outcomes))
               ELSE <<>>
        OfPref(pref) ==
            LET Inner(neighbor) == OfNeighbor(pref, neighbor)
            IN Flatten(MapSeq(Inner, successors(g, pref)))
    IN Flatten(MapSeq(OfPref, PreferencesOf(g, patient_id)))

\* the chain with the conflict node and the preference exchanged
ChainOf_fields_exchanged(g, t) ==
    [preference |-> t[2],
     conflict_relation |-> "conflicts_with",
     behavior |-> t[1],
     behavior_relation |-> Get(get_edge_data(g, t[2], t[3]), "relation"),
     outcome |-> t[3]]

\* the relation of the chain read from the conflict edge
ChainOf_conflict_edge(g, t) ==
    [preference |-> t[1],
     conflict_relation |-> "conflicts_with",
     behavior |-> t[2],
     behavior_relation |-> Get(get_edge_data(g, t[1], t[2]), "relation"),
     outcome |-> t[3]]

ChainOf(g, t) ==
    [preference |-> t[1],
     conflict_relation |-> "conflicts_with",
     behavior |-> t[2],
     behavior_relation |-> Get(get_edge_data(g, t[2], t[3]), "relation"),
     outcome |-> t[3]]

ExplanationOf(g, t) ==
    <<"Patient has preference '">> \o t[1]
      \o <<"'. This conflicts with managing '">> \o t[2] \o <<"' (">>
      \o GetOr(get_edge_data(g, t[1], t[2]), "reason", <<"direct conflict">>)
      \o <<"). Unmanaged '">> \o t[2] \o <<"' ">>
      \o <<Get(get_edge_data(g, t[2], t[3]), "relation")>>
      \o <<" '">> \o t[3] \o <<"'.">>

\* the lines of all the predecessors, whatever their type
CausalLines_any_type(g, outcomes) ==
    LET OfOutcome(outcome) ==
            LET Line(pred) ==
                    <<"'">> \o pred \o <<"' ">>
                      \o <<GetOr(get_edge_data(g, pred, outcome), "relation", "affects")>>
                      \o <<" '">> \o outcome \o <<"'.">>
            IN MapSeq(Line, predecessors(g, outcome))
    IN Flatten(MapSeq(OfOutcome, outcomes))

\* the lines of the loop over the predecessors of the outcomes
CausalLines(g, outcomes) ==
    LET OfOutcome(outcome) ==
            LET Causal(pred) == NodeType(g, pred) \in {"Behavior", "Outcome"}
                Line(pred) ==
                    <<"'">> \o pred \o <<"' ">>
                      \o <<GetOr(get_edge_data(g, pred, outcome), "relation", "affects")>>
                      \o <<" '">> \o outcome \o <<"'.">>
            IN MapSeq(Line, Filter(Causal, predecessors(g, outcome)))
    IN Flatten(MapSeq(OfOutcome, outcomes))

\* the not-found return for every identifier that is no Patient node
retrieve_context_patients_only(g, patient_id) ==
    IF ~has_node(g, patient_id) \/ NodeType(g, patient_id) # "Patient"
    THEN [lines |-> <<NotFoundLine(patient_id)>>, evidence |-> <<>>]
    ELSE LET outcomes == OutcomesOf(g, patient_id)
             paths == ConflictPaths(g, patient_id)
             Chain(t) == ChainOf(g, t)
             Explanation(t) == ExplanationOf(g, t)
             evidence == MapSeq(Chain, paths)
             reasoning_text ==
                 <<AnalyzingLine(patient_id, outcomes)>> \o MapSeq(Explanation, paths)
         IN IF evidence = <<>>
            THEN [lines |-> reasoning_text \o <<FallbackLine>>
                              \o CausalLines(g, outcomes),
                  evidence |-> evidence]
            ELSE [lines |-> reasoning_text, evidence |-> evidence]

\* the not-found line appended where the code returns it
retrieve_context_no_return(g, patient_id) ==
    IF ~has_node(g, patient_id)
    THEN [lines |-> <<NotFoundLine(patient_id), AnalyzingLine(patient_id, <<>>),
                      FallbackLine>>,
          evidence |-> <<>>]
    ELSE LET outcomes == OutcomesOf(g, patient_id)
             paths == ConflictPaths(g, patient_id)
             Chain(t) == ChainOf(g, t)
             Explanation(t) == ExplanationOf(g, t)
             evidence == MapSeq(Chain, paths)
             reasoning_text ==
                 <<AnalyzingLine(patient_id, outcomes)>> \o MapSeq(Explanation, paths)
         IN IF evidence = <<>>
            THEN [lines |-> reasoning_text \o <<FallbackLine>>
                              \o CausalLines(g, outcomes),
                  evidence |-> evidence]
            ELSE [lines |-> reasoning_text, evidence |-> evidence]

\* the search for conflicts without the causal trace after it
retrieve_context_no_fallback(g, patient_id) ==
    IF ~has_node(g, patient_id)
    THEN [lines |-> <<NotFoundLine(patient_id)>>, evidence |-> <<>>]
    ELSE LET outcomes == OutcomesOf(g, patient_id)
             paths == ConflictPaths(g, patient_id)
             Chain(t) == ChainOf(g, t)
             Explanation(t) == ExplanationOf(g, t)
         IN [lines |-> <<AnalyzingLine(patient_id, outcomes)>>
                         \o MapSeq(Explanation, paths),
             evidence |-> MapSeq(Chain, paths)]

\* the causal trace run whatever the search for conflicts found
retrieve_context_fallback_always(g, patient_id) ==
    IF ~has_node(g, patient_id)
    THEN [lines |-> <<NotFoundLine(patient_id)>>, evidence |-> <<>>]
    ELSE LET outcomes == OutcomesOf(g, patient_id)
             paths == ConflictPaths(g, patient_id)
             Chain(t) == ChainOf(g, t)
             Explanation(t) == ExplanationOf(g, t)
         IN [lines |-> <<AnalyzingLine(patient_id, outcomes)>>
                         \o MapSeq(Explanation, paths) \o <<FallbackLine>>
                         \o CausalLines(g, outcomes),
             evidence |-> MapSeq(Chain, paths)]

retrieve_context(g, patient_id) ==
    IF ~has_node(g, patient_id)
    THEN [lines |-> <<NotFoundLine(patient_id)>>, evidence |-> <<>>]
    ELSE LET outcomes == OutcomesOf(g, patient_id)
             paths == ConflictPaths(g, patient_id)
             Chain(t) == ChainOf(g, t)
             Explanation(t) == ExplanationOf(g, t)
             evidence == MapSeq(Chain, paths)
             reasoning_text ==
                 <<AnalyzingLine(patient_id, outcomes)>> \o MapSeq(Explanation, paths)
         IN IF evidence = <<>>
            THEN [lines |-> reasoning_text \o <<FallbackLine>>
                              \o CausalLines(g, outcomes),
                  evidence |-> evidence]
            ELSE [lines |-> reasoning_text, evidence |-> evidence]

\* visualize_reasoning_chain: the edges to highlight, two for every chain
highlighted_edges(evidence_chains) ==
    LET Pair(chain) == <<<<chain.preference, chain.behavior>>,
                         <<chain.behavior, chain.outcome>>>>
    IN Flatten(MapSeq(Pair, evidence_chains))

(* ------------------------------------------------------------ the program *)
\* the identifiers a caller asks about: the patients of the files, the
\* scenario patients, other nodes and identifiers of no graph
QueryIds ==
    {PatientNode(id) : id \in PatientIds} \cup ScenarioPatients
      \cup {<<"nonexistent">>, CalorieNode, OutcomeNode("P1")}

Paths == {"mok.csv", "other.csv"}

NoResult == [lines |-> <<>>, evidence |-> <<>>]

\* st.session_state before the first run of the script; None is <<>> and a
\* value v is <<v>>; page is the page that waits for build_graph_from_csv
NoSession ==
    [csv_path |-> "mok.csv", patients |-> <<>>, graph |-> <<>>, page |-> ""]

\* no call of get_llm_response under way
NoCall == [env |-> <<>>, outcome |-> <<>>, calls |-> <<>>, warnings |-> <<>>,
           response |-> <<>>, returned |-> FALSE]

\* what every behaviour starts from, the content of the files apart
Fresh ==
    /\ df = <<>>
    /\ patients = <<>>
    /\ G = DiGraph
    /\ idx = 0
    /\ pc = "idle"
    /\ qid = <<>>
    /\ out = NoResult
    /\ firstG = [p \in Paths |-> <<>>]
    /\ builds = [p \in Paths |-> 0]
    /\ batch = <<>>
    /\ query = <<>>
    /\ prompt = <<>>
    /\ session = NoSession
    /\ llm = NoCall

Init ==
    /\ \E f \in CsvFiles(MaxRecords) :
          csv = [p \in Paths |-> IF p = "mok.csv" THEN f ELSE <<>>]
    /\ path = "mok.csv"
    /\ Fresh

\* build_graph: G = nx.DiGraph().  The program of main.py reads no file.
BuildGraphStart ==
    /\ pc = "idle"
    /\ builds = [p \in Paths |-> 0]
    /\ csv[path] = <<>>
    /\ G' = DiGraph
    /\ idx' = 1
    /\ pc' = "calls"
    /\ path' = "hardcoded"
    /\ UNCHANGED <<csv, df, patients, qid, out, firstG, builds,
                 batch, query, prompt, session, llm>>

\* build_graph: the next add_node or add_edge call
BuildGraphCall ==
    /\ pc = "calls"
    /\ idx <= Len(HardcodedCalls)
    /\ G' = ApplyCall(G, HardcodedCalls[idx])
    /\ idx' = idx + 1
    /\ UNCHANGED <<csv, df, patients, pc, qid, out, path, firstG, builds,
                 batch, query, prompt, session, llm>>

\* build_graph: return G
BuildGraphReturn ==
    /\ pc = "calls"
    /\ idx > Len(HardcodedCalls)
    /\ pc' = "built"
    /\ UNCHANGED <<csv, df, patients, G, idx, qid, out, path, firstG, builds,
                 batch, query, prompt, session, llm>>

\* loader = PatientDataLoader(csv_path); load_csv
LoadCsv ==
    /\ pc = "idle"
    /\ df' = csv[path]
    /\ pc' = "loaded"
    /\ UNCHANGED <<csv, patients, G, idx, qid, out, path, firstG, builds,
                 batch, query, prompt, session, llm>>

\* patients = loader.process_data()
ProcessData ==
    /\ pc = "loaded"
    /\ patients' = process_data(df)
    /\ pc' = "processed"
    /\ UNCHANGED <<csv, df, G, idx, qid, out, path, firstG, builds,
                 batch, query, prompt, session, llm>>

\* a graph with the former content instead of a new one
CreateGraphReused ==
    /\ pc = "processed"
    /\ G' = SharedNodes(G)
    /\ idx' = 1
    /\ pc' = "loop"
    /\ UNCHANGED <<csv, df, patients, qid, out, path, firstG, builds,
                 batch, query, prompt, session, llm>>

\* G = nx.DiGraph() and the shared nodes
CreateGraph ==
    /\ pc = "processed"
    /\ G' = SharedNodes(DiGraph)
    /\ idx' = 1
    /\ pc' = "loop"
    /\ UNCHANGED <<csv, df, patients, qid, out, path, firstG, builds,
                 batch, query, prompt, session, llm>>

\* for patient in patients: one pass
AddPatient ==
    /\ pc = "loop"
    /\ idx <= Len(patients)
    /\ G' = LoopBody(G, patients[idx])
    /\ idx' = idx + 1
    /\ UNCHANGED <<csv, df, patients, pc, qid, out, path, firstG, builds,
                 batch, query, prompt, session, llm>>

\* return G, patients
Return ==
    /\ pc = "loop"
    /\ idx > Len(patients)
    /\ pc' = "built"
    /\ builds' = [builds EXCEPT ![path] = @ + 1]
    /\ firstG' = IF firstG[path] = <<>> THEN [firstG EXCEPT ![path] = <<G>>]
                 ELSE firstG
    /\ UNCHANGED <<csv, df, patients, G, idx, qid, out, path,
                 batch, query, prompt, session, llm>>

\* reasoning_text, evidence = retrieve_context(G, patient_id)
Retrieve ==
    /\ pc = "built"
    /\ \E id \in QueryIds :
          /\ qid' = id
          /\ out' = retrieve_context(G, id)
    /\ pc' = "retrieved"
    /\ UNCHANGED <<csv, df, patients, G, idx, path, firstG, builds,
                 batch, query, prompt, session, llm>>

\* the caller is done with the lines and the chains of one retrieval
Consume ==
    /\ pc = "retrieved"
    /\ pc' = "built"
    /\ qid' = <<>>
    /\ out' = NoResult
    /\ UNCHANGED <<csv, df, patients, G, idx, path, firstG, builds,
                 batch, query, prompt, session, llm>>

Next ==
    \/ BuildGraphStart
    \/ BuildGraphCall
    \/ BuildGraphReturn
    \/ LoadCsv
    \/ ProcessData
    \/ CreateGraph
    \/ AddPatient
    \/ Return
    \/ Retrieve
    \/ Consume

Spec == Init /\ [][Next]_vars

(* ------------------------------------------------------- successive builds *)
\* the file a caller passes when it passes no file of its own
DefaultCsv ==
    <<[ID |-> "P1", Weight |-> <<"-0.3", " kg (", "Slow", ")">>, Steps |-> 9000,
       Calories |-> 2500, DietFlex |-> <<"High", " (", "9", "/10)">>,
       Rate |-> <<"High", " (", "8", "/10)">>],
      [ID |-> "P2", Weight |-> <<"-2.0", " kg (", "Successful", ")">>,
       Steps |-> 9000, Calories |-> 1500,
       DietFlex |-> <<"Medium", " (", "5", "/10)">>,
       Rate |-> <<"High", " (", "8", "/10)">>]>>

InitRebuild ==
    /\ \E f \in CsvFiles(MaxRebuildRecords) :
          csv = [p \in Paths |-> IF p = "mok.csv" THEN DefaultCsv ELSE f]
    /\ path \in Paths
    /\ Fresh

\* one more call of build_graph_from_csv, of either file
CallAgain ==
    /\ pc = "built"
    /\ builds["mok.csv"] + builds["other.csv"] < MaxBuilds
    /\ \E p \in Paths : path' = p
    /\ pc' = "idle"
    /\ UNCHANGED <<csv, df, patients, G, idx, qid, out, firstG, builds,
                 batch, query, prompt, session, llm>>

NextRebuild ==
    \/ LoadCsv
    \/ ProcessData
    \/ CreateGraph
    \/ AddPatient
    \/ Return
    \/ CallAgain

SpecRebuild == InitRebuild /\ [][NextRebuild]_vars

(* ------------------------------------------- the search on any graph *)
\* retrieve_context takes any DiGraph: graphs of one patient, two preferences,
\* two behaviours and two outcomes, made by add_edge calls in any order
SearchPatient == <<"Patient_X">>
SearchPrefs == <<<<"Pref_1">>, <<"Pref_2">>>>
SearchBehaviors == <<<<"Behavior_1">>, <<"Behavior_2">>>>
SearchOutcomes == <<<<"Outcome_1">>, <<"Outcome_2">>>>

\* the typed nodes and the edges out of the patient, in either order
SearchBase(order) ==
    LET g1 == add_node(DiGraph, SearchPatient, [type |-> "Patient"])
        g2 == add_node(add_node(g1, SearchPrefs[1], [type |-> "Preference"]),
                       SearchPrefs[2], [type |-> "Preference"])
        g3 == add_node(add_node(g2, SearchBehaviors[1], [type |-> "Behavior"]),
                       SearchBehaviors[2], [type |-> "Behavior"])
        g4 == add_node(add_node(g3, SearchOutcomes[1], [type |-> "Outcome"]),
                       SearchOutcomes[2], [type |-> "Outcome"])
        g5 == add_edge(add_edge(g4, SearchPatient, SearchOutcomes[order[1]],
                                [relation |-> "experiences"]),
                       SearchPatient, SearchPrefs[order[1]],
                       [relation |-> "has_preference"])
    IN add_edge(add_edge(g5, SearchPatient, SearchPrefs[order[2]],
                         [relation |-> "has_preference"]),
                SearchPatient, SearchOutcomes[order[2]],
                [relation |-> "experiences"])

\* the add_edge calls a graph is made of
SearchCalls ==
    {[u |-> SearchPrefs[1], v |-> SearchBehaviors[1], relation |-> "conflicts_with"],
     [u |-> SearchPrefs[1], v |-> SearchBehaviors[2], relation |-> "conflicts_with"],
     [u |-> SearchPrefs[2], v |-> SearchBehaviors[1], relation |-> "conflicts_with"],
     [u |-> SearchPrefs[1], v |-> SearchBehaviors[1], relation |-> "supports"],
     [u |-> SearchPrefs[1], v |-> SearchOutcomes[2], relation |-> "conflicts_with"],
     [u |-> SearchBehaviors[1], v |-> SearchOutcomes[1], relation |-> "influences"],
     [u |-> SearchBehaviors[1], v |-> SearchOutcomes[2], relation |-> "influences"],
     [u |-> SearchBehaviors[2], v |-> SearchOutcomes[1], relation |-> "influences"],
     [u |-> SearchBehaviors[1], v |-> SearchOutcomes[1], relation |-> "causes"],
     [u |-> SearchOutcomes[2], v |-> SearchOutcomes[1], relation |-> "worsens"]}

SearchIds == {SearchPatient, <<"nonexistent">>}

InitSearch ==
    /\ csv = [p \in Paths |-> <<>>]
    /\ path = "search"
    /\ df = <<>>
    /\ patients = <<>>
    /\ \E order \in {<<1, 2>>, <<2, 1>>} : G = SearchBase(order)
    /\ idx = 0
    /\ pc = "edges"
    /\ qid = <<>>
    /\ out = NoResult
    /\ firstG = [p \in Paths |-> <<>>]
    /\ builds = [p \in Paths |-> 0]
    /\ batch = <<>>
    /\ query = <<>>
    /\ prompt = <<>>
    /\ session = NoSession
    /\ llm = NoCall

\* G.add_edge(u, v, relation=...)
SearchAddEdge ==
    /\ pc = "edges"
    /\ idx < MaxSearchCalls
    /\ \E c \in SearchCalls :
          G' = add_edge(G, c.u, c.v, [relation |-> c.relation])
    /\ idx' = idx + 1
    /\ UNCHANGED <<csv, df, patients, pc, qid, out, path, firstG, builds,
                 batch, query, prompt, session, llm>>

\* the graph is handed to the retriever
SearchGraphDone ==
    /\ pc = "edges"
    /\ pc' = "built"
    /\ UNCHANGED <<csv, df, patients, G, idx, qid, out, path, firstG, builds,
                 batch, query, prompt, session, llm>>

\* a lookup that creates the node it looks for
SearchRetrieve_creates_node ==
    /\ pc = "built"
    /\ \E id \in SearchIds :
          /\ qid' = id
          /\ out' = retrieve_context(G, id)
          /\ G' = add_node(G, id, NoAttrs)
    /\ pc' = "retrieved"
    /\ UNCHANGED <<csv, df, patients, idx, path, firstG, builds,
                 batch, query, prompt, session, llm>>

\* reasoning_text, evidence = retrieve_context(G, patient_id)
SearchRetrieve ==
    /\ pc = "built"
    /\ \E id \in SearchIds :
          /\ qid' = id
          /\ out' = retrieve_context(G, id)
    /\ pc' = "retrieved"
    /\ UNCHANGED <<csv, df, patients, G, idx, path, firstG, builds,
                 batch, query, prompt, session, llm>>

NextSearch ==
    \/ SearchAddEdge
    \/ SearchGraphDone
    \/ SearchRetrieve

SpecSearch == InitSearch /\ [][NextSearch]_vars

(* ------------------------------------------------------ batch retrieval *)
\* the files of a batch: rows of every combination of steps, intake and
\* dietary flexibility
BatchFiles ==
    {f \in CsvFiles(MaxBatchRecords) :
        \A k \in 1..Len(f) : f[k].Weight = <<"-0.3", " kg (", "Slow", ")">>}

InitBatch ==
    /\ \E f \in BatchFiles :
          csv = [p \in Paths |-> IF p = "mok.csv" THEN f ELSE <<>>]
    /\ path = "mok.csv"
    /\ Fresh

\* the lists of shared slots, every retrieval writing those of the first
Slot_shared(k) == 1

\* evidence and reasoning_text are local to a call: a retrieval has its own
Slot(k) == k

\* the paths of the two inner loops for one preference
PrefPaths(g, pref, outcomes) ==
    LET OfNeighbor(neighbor) ==
            LET Reached(outcome) == has_edge(g, neighbor, outcome)
                Triple(outcome) == <<pref, neighbor, outcome>>
            IN IF Get(get_edge_data(g, pref, neighbor), "relation") = "conflicts_with"
               THEN MapSeq(Triple, Filter(Reached, outcomes))
               ELSE <<>>
    IN Flatten(MapSeq(OfNeighbor, successors(g, pref)))

\* for patient in patients: one retrieval per record, over the graph built
BatchStart ==
    /\ pc = "built"
    /\ pc' = "batch"
    /\ batch' = [k \in 1..Len(patients) |->
                    [id |-> PatientNode(patients[k].id), pc |-> "call", i |-> 0,
                     outcomes |-> <<>>, preferences |-> <<>>,
                     reasoning_text |-> <<>>, evidence |-> <<>>,
                     result |-> NoResult]]
    /\ UNCHANGED <<csv, df, patients, G, idx, qid, out, path, firstG, builds,
                   query, prompt, session, llm>>

\* evidence = [], reasoning_text = [], and the return for an unknown identifier
RetrieveCall(k) ==
    /\ pc = "batch"
    /\ batch[k].pc = "call"
    /\ batch' = IF batch[k].id \notin Nodes(G)
                THEN [batch EXCEPT ![Slot(k)].evidence = <<>>,
                                   ![Slot(k)].reasoning_text = <<>>,
                                   ![k].result = [lines |-> <<NotFoundLine(batch[k].id)>>,
                                                  evidence |-> <<>>],
                                   ![k].pc = "done"]
                ELSE [batch EXCEPT ![Slot(k)].evidence = <<>>,
                                   ![Slot(k)].reasoning_text = <<>>,
                                   ![k].pc = "scan"]
    /\ UNCHANGED <<csv, df, patients, G, idx, pc, qid, out, path, firstG, builds,
                   query, prompt, session, llm>>

\* outcomes, preferences and the 'Analyzing' line
RetrieveScan(k) ==
    /\ pc = "batch"
    /\ batch[k].pc = "scan"
    /\ LET outcomes == OutcomesOf(G, batch[k].id)
       IN batch' = [batch EXCEPT
                       ![k].outcomes = outcomes,
                       ![k].preferences = PreferencesOf(G, batch[k].id),
                       ![Slot(k)].reasoning_text =
                           Append(@, AnalyzingLine(batch[k].id, outcomes)),
                       ![k].i = 1,
                       ![k].pc = "prefs"]
    /\ UNCHANGED <<csv, df, patients, G, idx, pc, qid, out, path, firstG, builds,
                   query, prompt, session, llm>>

\* for pref in preferences: one pass
RetrievePref(k) ==
    /\ pc = "batch"
    /\ batch[k].pc = "prefs"
    /\ batch[k].i <= Len(batch[k].preferences)
    /\ LET paths == PrefPaths(G, batch[k].preferences[batch[k].i], batch[k].outcomes)
           Chain(t) == ChainOf(G, t)
           Explanation(t) == ExplanationOf(G, t)
       IN batch' = [batch EXCEPT
                       ![Slot(k)].evidence = @ \o MapSeq(Chain, paths),
                       ![Slot(k)].reasoning_text = @ \o MapSeq(Explanation, paths),
                       ![k].i = @ + 1]
    /\ UNCHANGED <<csv, df, patients, G, idx, pc, qid, out, path, firstG, builds,
                   query, prompt, session, llm>>

\* if not evidence: the announcement and the causal trace
RetrieveFallback(k) ==
    /\ pc = "batch"
    /\ batch[k].pc = "prefs"
    /\ batch[k].i > Len(batch[k].preferences)
    /\ batch' = IF batch[Slot(k)].evidence = <<>>
                THEN [batch EXCEPT
                         ![Slot(k)].reasoning_text =
                             @ \o <<FallbackLine>> \o CausalLines(G, batch[k].outcomes),
                         ![k].pc = "return"]
                ELSE [batch EXCEPT ![k].pc = "return"]
    /\ UNCHANGED <<csv, df, patients, G, idx, pc, qid, out, path, firstG, builds,
                   query, prompt, session, llm>>

\* return reasoning_text, evidence
RetrieveReturn(k) ==
    /\ pc = "batch"
    /\ batch[k].pc = "return"
    /\ batch' = [batch EXCEPT
                    ![k].result = [lines |-> batch[Slot(k)].reasoning_text,
                                   evidence |-> batch[Slot(k)].evidence],
                    ![k].pc = "done"]
    /\ UNCHANGED <<csv, df, patients, G, idx, pc, qid, out, path, firstG, builds,
                   query, prompt, session, llm>>

NextBatch ==
    \/ LoadCsv
    \/ ProcessData
    \/ CreateGraph
    \/ AddPatient
    \/ Return
    \/ BatchStart
    \/ \E k \in DOMAIN batch : RetrieveCall(k)
    \/ \E k \in DOMAIN batch : RetrieveScan(k)
    \/ \E k \in DOMAIN batch : RetrievePref(k)
    \/ \E k \in DOMAIN batch : RetrieveFallback(k)
    \/ \E k \in DOMAIN batch : RetrieveReturn(k)

SpecBatch == InitBatch /\ [][NextBatch]_vars

(* ----------------------------------------------------------- format_prompt *)
PromptHead ==
    "You are a clinical decision support AI. Use the following Knowledge Graph context to answer the user's query.\n\nContext:\n"
PromptQuery == "\n\nQuery: "
PromptTail ==
    "\n\nProvide a concise clinical explanation and recommendation based on the context provided."

\* the lines joined with ", " as the outcomes of the 'Analyzing' line are
format_prompt_comma_join(query_text, reasoning_text) ==
    LET context_str == Join(reasoning_text, ", ")
    IN <<PromptHead>> \o context_str \o <<PromptQuery>> \o query_text
         \o <<PromptTail>>

format_prompt(query_text, reasoning_text) ==
    LET context_str == Join(reasoning_text, "\n")
    IN <<PromptHead>> \o context_str \o <<PromptQuery>> \o query_text
         \o <<PromptTail>>

\* the lines and the queries format_prompt is given: lines of the retriever,
\* an empty line, an empty query, a query that holds the text before a query
PromptLines == {NotFoundLine(<<"P1">>), FallbackLine, <<>>}
PromptQueries ==
    {<<"Why is the patient experiencing slow weight loss?">>, <<>>,
     <<PromptQuery, "Context:">>}

RECURSIVE LineSeqs(_)
LineSeqs(n) ==
    IF n = 0 THEN {<<>>}
    ELSE LET shorter == LineSeqs(n - 1)
         IN shorter \cup
            {Append(sl[1], sl[2]) :
                sl \in {h \in shorter : Len(h) = n - 1} \X PromptLines}

InitPrompt ==
    /\ csv = [p \in Paths |-> <<>>]
    /\ path = "prompt"
    /\ df = <<>>
    /\ patients = <<>>
    /\ G = DiGraph
    /\ idx = 0
    /\ pc = "ask"
    /\ qid = <<>>
    /\ \E ls \in LineSeqs(MaxLines) : out = [lines |-> ls, evidence |-> <<>>]
    /\ firstG = [p \in Paths |-> <<>>]
    /\ builds = [p \in Paths |-> 0]
    /\ batch = <<>>
    /\ query \in PromptQueries
    /\ prompt = <<>>
    /\ session = NoSession
    /\ llm = NoCall

\* prompt = format_prompt(query, reasoning_text)
FormatPrompt ==
    /\ pc = "ask"
    /\ prompt' = format_prompt(query, out.lines)
    /\ pc' = "prompted"
    /\ UNCHANGED <<csv, df, patients, G, idx, qid, out, path, firstG, builds,
                   batch, query, session, llm>>

NextPrompt == FormatPrompt

SpecPrompt == InitPrompt /\ [][NextPrompt]_vars

(* ------------------------------------------------- the loader on any row *)
\* the words of a weight-change text: a number and the four keywords
WeightWords == {"-0.3", "Slow", "Successful", "Increase", "Moderate"}

RECURSIVE WordSeqs(_)
WordSeqs(n) ==
    IF n = 0 THEN {<<>>}
    ELSE LET shorter == WordSeqs(n - 1)
         IN shorter \cup
            {Append(sw[1], sw[2]) :
                sw \in {h \in shorter : Len(h) = n - 1} \X WeightWords}

\* numbers at and next to the thresholds of the classifiers
StepsAtThresholds == {-1, 0, 4999, 5000, 7999, 8000, 20000}
CaloriesAtThresholds == {-1, 0, 1699, 1700, 2299, 2300, 5000}
ScoresAtThresholds == {"0", "3", "4", "7", "8", "10"}

\* rows of any weight-change text, and rows of any numbers
LoaderRows ==
    [ID : {"P1"}, Weight : WordSeqs(MaxWords), Steps : {9000}, Calories : {2500},
     DietFlex : {<<"High", " (", "9", "/10)">>},
     Rate : {<<"High", " (", "8", "/10)">>}]
    \cup
    [ID : {"P1"}, Weight : {<<"-0.3", " kg (", "Slow", ")">>},
     Steps : StepsAtThresholds, Calories : CaloriesAtThresholds,
     DietFlex : {<<"Flex", " (", sc, "/10)">> : sc \in ScoresAtThresholds},
     Rate : {<<"High", " (", "8", "/10)">>}]

InitLoader ==
    /\ \E r \in LoaderRows :
          csv = [p \in Paths |-> IF p = "mok.csv" THEN <<r>> ELSE <<>>]
    /\ path = "mok.csv"
    /\ Fresh

NextLoader ==
    \/ LoadCsv
    \/ ProcessData

SpecLoader == InitLoader /\ [][NextLoader]_vars

(* ------------------------------------------------- two files, one record *)
\* files of rows of high dietary flexibility and slow weight loss, of every
\* combination of steps and intake
PairFiles ==
    {f \in CsvFiles(MaxPairRecords) :
        \A k \in 1..Len(f) :
            /\ f[k].Weight = <<"-0.3", " kg (", "Slow", ")">>
            /\ f[k].DietFlex = <<"High", " (", "9", "/10)">>}

\* the rows two files have in common
CommonRows(f, h) ==
    {k \in 1..Len(f) : k <= Len(h) /\ f[k] = h[k]}

\* two files that hold the same record of some patient
InitPair ==
    /\ \E f \in PairFiles, h \in PairFiles :
          /\ CommonRows(f, h) # {}
          /\ csv = [p \in Paths |-> IF p = "mok.csv" THEN f ELSE h]
    /\ path = "other.csv"
    /\ Fresh

\* build_graph_from_csv of the second file, after that of the first
BuildSecond ==
    /\ pc = "built"
    /\ path = "other.csv"
    /\ path' = "mok.csv"
    /\ pc' = "idle"
    /\ UNCHANGED <<csv, df, patients, G, idx, qid, out, firstG, builds,
                   batch, query, prompt, session, llm>>

NextPair ==
    \/ LoadCsv
    \/ ProcessData
    \/ CreateGraph
    \/ AddPatient
    \/ Return
    \/ BuildSecond
    \/ Retrieve
    \/ Consume

SpecPair == InitPair /\ [][NextPair]_vars

(* ------------------------------------------------------- the LLM call *)

\* "name" in prompt: the prompt holds the name, which the retriever writes as
\* a piece of its own
InPrompt(name, p) == \E k \in 1..Len(p) : p[k] = name

simulate_llm_response(p) ==
    IF InPrompt("Diet_Flexibility_Preference", p) /\ InPrompt("Calorie_Intake", p)
    THEN
      "**Conclusion:** Patient A's slow weight loss is likely driven by their high preference for 'Diet Flexibility'. This preference creates a conflict with strict 'Calorie Intake' management. While the patient may be active, the lack of dietary structure is negating the caloric deficit required for weight loss.\n\n**Recommendation:** Instead of a rigid diet plan (which conflicts with their preference), suggest a 'Volume Eating' approach or intermittent fasting, which allows for flexibility while naturally limiting caloric window."
    ELSE IF InPrompt("Minimal_Diet_Preference", p) /\ InPrompt("Exercise_Preference", p)
    THEN
      "**Conclusion:** Patient B is experiencing the classic 'exercise compensation' phenomenon. Their strong preference for exercise-based weight loss, combined with minimal diet awareness, leads to compensatory eating that negates the caloric expenditure from exercise. Stress eating further exacerbates this issue.\n\n**Recommendation:** Implement mindful eating practices and stress management techniques. Use a food diary (not restrictive counting) to increase awareness of eating patterns, especially post-workout."
    ELSE IF InPrompt("Metabolic_Adaptation", p) \/ InPrompt("Weight_Plateau", p)
    THEN
      "**Conclusion:** Patient C's plateau is a result of metabolic adaptation. Their excellent adherence to a consistent routine has allowed their body to adapt, reducing energy expenditure and halting weight loss progress.\n\n**Recommendation:** Implement a 'refeed' strategy (1-2 days of maintenance calories weekly) or introduce structured variation in training (periodization). This disrupts adaptation while respecting their preference for structure."
    ELSE
      "Based on the provided context, further analysis is needed to determine the root cause."

\* os.getenv of a key: None, the empty text or a key
Environments ==
    [OPENAI_API_KEY : {<<>>, <<"">>, <<"sk-key">>},
     GOOGLE_API_KEY : {<<>>, <<"">>, <<"sk-key">>}]

\* what the body of a try block does: it returns response.content, or the
\* import or the call raises
Providers == {"ChatOpenAI", "ChatGoogleGenerativeAI"}
Outcomes == [Providers -> {"content", "ImportError", "APIError"}]

\* response.content of a provider
ContentOf(provider) == provider \o ".invoke(prompt).content"

\* if key: a key that is set and not empty
Truthy(key) == key # <<>> /\ key # <<"">>

\* the first try block without its return: the content is kept and the
\* function goes on
TryProvider_no_return(c, key, provider) ==
    IF ~Truthy(key) THEN c
    ELSE IF c.outcome[provider] = "content"
    THEN [c EXCEPT !.calls = Append(@, provider),
                   !.response = <<ContentOf(provider)>>]
    ELSE [c EXCEPT !.calls = Append(@, provider),
                   !.warnings = Append(@, provider)]

\* one try block; except Exception catches what the provider raises
TryProvider(c, key, provider) ==
    IF c.returned \/ ~Truthy(key) THEN c
    ELSE IF c.outcome[provider] = "content"
    THEN [c EXCEPT !.calls = Append(@, provider),
                   !.response = <<ContentOf(provider)>>,
                   !.returned = TRUE]
    ELSE [c EXCEPT !.calls = Append(@, provider),
                   !.warnings = Append(@, provider)]

\* return simulate_llm_response(prompt), reached when nothing has returned
Fallback(c, p) ==
    IF c.returned THEN c
    ELSE [c EXCEPT !.calls = Append(@, "simulate_llm_response"),
                   !.response = <<simulate_llm_response(p)>>,
                   !.returned = TRUE]

get_llm_response(p, env, outcome) ==
    LET entered == [env |-> env, outcome |-> outcome, calls |-> <<>>,
                    warnings |-> <<>>, response |-> <<>>, returned |-> FALSE]
        openai == TryProvider(entered, env.OPENAI_API_KEY, "ChatOpenAI")
        google == TryProvider(openai, env.GOOGLE_API_KEY,
                              "ChatGoogleGenerativeAI")
    IN Fallback(google, p)

\* the template of process_patient_query around the context and the query

\* prompt_template.format(context=context_str, query=query)
formatted_prompt(query_text, reasoning_text) ==
    LET context_str == Join(reasoning_text, "\n")
        template_head ==
            "You are a clinical decision support AI specialized in obesity management for the UNIFIED project.\n\nKnowledge Graph Context:\n"
        template_query == "\n\nPatient Query: "
        template_tail ==
            "\n\nBased on the context above, provide:\n1. A clear clinical explanation of the patient's situation\n2. Specific, actionable recommendations that respect their preferences\n\nResponse:"
    IN <<template_head>> \o context_str \o <<template_query>> \o query_text
         \o <<template_tail>>

\* the queries of a call: those of the prompt, and one that names the
\* preferences the simulation looks for
LlmQueries ==
    PromptQueries \cup
    {<<"Does ", "Exercise_Preference", " with ", "Minimal_Diet_Preference",
       " explain it?">>}

\* the program of main.py: no file, the graph of build_graph
InitLlm ==
    /\ csv = [p \in Paths |-> <<>>]
    /\ path = "mok.csv"
    /\ Fresh

\* process_patient_query for one patient: the retrieval, the prompt and the
\* call of the LLM, under any environment and any behaviour of the providers
ProcessPatientQuery ==
    /\ pc = "built"
    /\ \E id \in QueryIds, q \in LlmQueries, env \in Environments,
          outcome \in Outcomes :
          LET result == retrieve_context(G, id)
              text == formatted_prompt(q, result.lines)
          IN /\ qid' = id
             /\ out' = result
             /\ query' = q
             /\ prompt' = text
             /\ llm' = get_llm_response(text, env, outcome)
    /\ pc' = "answered"
    /\ UNCHANGED <<csv, df, patients, G, idx, path, firstG, builds, batch,
                   session>>

NextLlm ==
    \/ BuildGraphStart
    \/ BuildGraphCall
    \/ BuildGraphReturn
    \/ ProcessPatientQuery

SpecLlm == InitLlm /\ [][NextLlm]_vars

(* ---------------------------------------------------------- the UI session *)
\* the object st.file_uploader returns for an uploaded file, which is no str;
\* its content is csv["other.csv"]
UploadedFile == "UploadedFile"

\* the sidebar, run at every rerun of the script: an uploaded file becomes
\* the data source, without one a click on 'Use Default' makes mok.csv the
\* data source; patients and graph are left as they are
Sidebar(s, uploaded, click) ==
    [s EXCEPT !.csv_path = IF uploaded THEN UploadedFile
                           ELSE IF click THEN "mok.csv" ELSE @]

\* load_patient_data: the records of the file at csv_path, or of the
\* uploaded file (cached by st.cache_data; the files do not change)
load_patient_data(csv_path) ==
    process_data(IF csv_path = UploadedFile THEN csv["other.csv"]
                 ELSE csv[csv_path])

\* the argument the pages give build_graph_from_csv:
\* csv_path if isinstance(csv_path, str) else "mok.csv"
GraphSource(csv_path) ==
    IF csv_path # UploadedFile THEN csv_path ELSE "mok.csv"

\* if st.session_state.patients is None: load them
EnsurePatients(s) ==
    IF s.patients = <<>>
    THEN [s EXCEPT !.patients = <<load_patient_data(s.csv_path)>>]
    ELSE s

\* patient_ids = [p['id'] for p in st.session_state.patients]
patient_ids(s) == [k \in 1..Len(s.patients[1]) |-> s.patients[1][k].id]

\* the files of a session: rows of slow weight loss, high dietary
\* flexibility and many steps
SessionFiles ==
    {f \in CsvFiles(MaxSessionRecords) :
        \A k \in 1..Len(f) :
            /\ f[k].Weight = <<"-0.3", " kg (", "Slow", ")">>
            /\ f[k].DietFlex = <<"High", " (", "9", "/10)">>
            /\ f[k].Steps = 9000}

\* the questions typed into the chat, the empty one among them
ChatQueries == {<<>>, <<"Why is the patient experiencing slow weight loss?">>}

\* the environments and the providers of a session: no key or the key of
\* OpenAI, providers that answer or fail
SessionEnvironments ==
    {env \in Environments :
        env.GOOGLE_API_KEY = <<>> /\ env.OPENAI_API_KEY # <<"">>}
SessionOutcomes ==
    {o \in Outcomes : o["ChatOpenAI"] # "ImportError"
                       /\ o["ChatGoogleGenerativeAI"] = "content"}

\* the first run of the script: mok.csv on disk, and the file the user may
\* upload
InitSession ==
    /\ \E f \in SessionFiles, h \in SessionFiles :
          csv = [p \in Paths |-> IF p = "mok.csv" THEN f ELSE h]
    /\ path = "mok.csv"
    /\ df = <<>>
    /\ patients = <<>>
    /\ G = DiGraph
    /\ idx = 0
    /\ pc = "ready"
    /\ qid = <<>>
    /\ out = NoResult
    /\ firstG = [p \in Paths |-> <<>>]
    /\ builds = [p \in Paths |-> 0]
    /\ batch = <<>>
    /\ query = <<>>
    /\ prompt = <<>>
    /\ session = NoSession
    /\ llm = NoCall

\* the script has run to its end and waits for the next interaction; pc
\* holds the page it has shown
Shown == {"ready", "dashboard", "kg", "chat", "batch"}

\* nothing of a retrieval is on the page
NothingRetrieved ==
    /\ qid' = <<>>
    /\ out' = NoResult
    /\ prompt' = <<>>
    /\ llm' = NoCall

\* the page calls build_graph_from_csv, which runs step by step
CallBuild(s, page) ==
    /\ session' = [s EXCEPT !.page = page]
    /\ path' = GraphSource(s.csv_path)
    /\ pc' = "idle"

\* build_graph_from_csv is at its return, called by the page
Returning(page) ==
    /\ pc = "loop"
    /\ idx > Len(patients)
    /\ session.page = page

\* a rerun of the script on the Dashboard page, which loads the patients of
\* the data source anew
VisitDashboard ==
    /\ pc \in Shown
    /\ \E uploaded \in BOOLEAN, click \in BOOLEAN :
          LET s == Sidebar(session, uploaded, click)
          IN session' = [s EXCEPT !.patients =
                                      <<load_patient_data(s.csv_path)>>]
    /\ pc' = "dashboard"
    /\ NothingRetrieved
    /\ query' = <<>>
    /\ batch' = <<>>
    /\ UNCHANGED <<csv, df, patients, G, idx, path, firstG, builds>>

\* the KG Visualization page from its selectbox on: the retrieval for the
\* selected patient, which is one of patient_ids
ShowKG(s) ==
    /\ session' = s
    /\ IF patient_ids(s) = <<>>
       THEN NothingRetrieved
       ELSE /\ \E k \in 1..Len(patient_ids(s)) :
                  /\ qid' = PatientNode(patient_ids(s)[k])
                  /\ out' = retrieve_context(s.graph[1],
                                              PatientNode(patient_ids(s)[k]))
            /\ prompt' = <<>>
            /\ llm' = NoCall
    /\ pc' = "kg"

\* a rerun on the KG Visualization page: the patients are loaded if there
\* are none, the graph is built if there is none
VisitKG ==
    /\ pc \in Shown
    /\ \E uploaded \in BOOLEAN, click \in BOOLEAN :
          LET s == EnsurePatients(Sidebar(session, uploaded, click))
          IN IF s.graph = <<>>
             THEN CallBuild(s, "kg") /\ NothingRetrieved
             ELSE ShowKG(s) /\ path' = path
    /\ query' = <<>>
    /\ batch' = <<>>
    /\ UNCHANGED <<csv, df, patients, G, idx, firstG, builds>>

\* st.session_state.graph = G, and the rest of the page
KGBuilt ==
    /\ Returning("kg")
    /\ ShowKG([session EXCEPT !.graph = <<G>>, !.page = ""])
    /\ UNCHANGED <<csv, df, patients, G, idx, path, firstG, builds, batch,
                   query>>

\* the LLM Chat page from its selectbox on: on 'Submit Query' with a
\* question, the retrieval for the selected patient, the prompt and the call
\* of the LLM (the chat history, which no retrieval reads, is not kept)
ShowChat(s) ==
    /\ session' = s
    /\ \E submit \in BOOLEAN, q \in ChatQueries :
          /\ query' = q
          /\ IF patient_ids(s) = <<>> \/ ~submit \/ q = <<>>
             THEN NothingRetrieved
             ELSE \E k \in 1..Len(patient_ids(s)),
                     env \in SessionEnvironments, outcome \in SessionOutcomes :
                     /\ qid' = PatientNode(patient_ids(s)[k])
                     /\ out' = retrieve_context(s.graph[1],
                                                 PatientNode(patient_ids(s)[k]))
                     /\ prompt' = format_prompt(q, out'.lines)
                     /\ llm' = get_llm_response(prompt', env, outcome)
    /\ pc' = "chat"

\* a rerun on the LLM Chat page
VisitChat ==
    /\ pc \in Shown
    /\ \E uploaded \in BOOLEAN, click \in BOOLEAN :
          LET s == EnsurePatients(Sidebar(session, uploaded, click))
          IN IF s.graph = <<>>
             THEN CallBuild(s, "chat") /\ NothingRetrieved /\ query' = <<>>
             ELSE ShowChat(s) /\ path' = path
    /\ batch' = <<>>
    /\ UNCHANGED <<csv, df, patients, G, idx, firstG, builds>>

\* st.session_state.graph = G, and the rest of the page
ChatBuilt ==
    /\ Returning("chat")
    /\ ShowChat([session EXCEPT !.graph = <<G>>, !.page = ""])
    /\ UNCHANGED <<csv, df, patients, G, idx, path, firstG, builds, batch>>

\* the row of the results table for one patient of the batch
BatchRow(g, patient, env, outcome) ==
    LET result == retrieve_context(g, PatientNode(patient.id))
        q == <<"What explains ", patient.id, "'s ",
               patient.weight_change_category, " weight change?">>
        text == format_prompt(q, result.lines)
    IN [id |-> patient.id, result |-> result,
        response |-> get_llm_response(text, env, outcome).response]

\* a rerun on the Batch Analysis page: on the click of its button the graph
\* is built anew, whether there is one or not
VisitBatch ==
    /\ pc \in Shown
    /\ \E uploaded \in BOOLEAN, click \in BOOLEAN, start \in BOOLEAN :
          LET s == EnsurePatients(Sidebar(session, uploaded, click))
          IN IF start
             THEN CallBuild(s, "batch")
             ELSE session' = s /\ pc' = "batch" /\ path' = path
    /\ NothingRetrieved
    /\ query' = <<>>
    /\ batch' = <<>>
    /\ UNCHANGED <<csv, df, patients, G, idx, firstG, builds>>

\* st.session_state.graph = G, and the analysis of every patient of the list
BatchBuilt ==
    /\ Returning("batch")
    /\ session' = [session EXCEPT !.graph = <<G>>, !.page = ""]
    /\ \E env \in SessionEnvironments, outcome \in SessionOutcomes :
          batch' = MapSeq(LAMBDA patient : BatchRow(G, patient, env, outcome),
                          session.patients[1])
    /\ pc' = "batch"
    /\ UNCHANGED <<csv, df, patients, G, idx, qid, out, path, firstG, builds,
                   query, prompt, llm>>

NextSession ==
    \/ VisitDashboard
    \/ VisitKG
    \/ VisitChat
    \/ VisitBatch
    \/ LoadCsv
    \/ ProcessData
    \/ CreateGraph
    \/ AddPatient
    \/ KGBuilt
    \/ ChatBuilt
    \/ BatchBuilt

SpecSession == InitSession /\ [][NextSession]_vars

(* ------------------------------------------------------------- properties *)
\* a graph of build_graph_from_csv has been returned
CsvBuilt == path \in Paths /\ pc \in {"built", "retrieved"}

\* retrieve_context has returned for the patient of record p of that graph
Asked(p) == CsvBuilt /\ pc = "retrieved" /\ qid = <<p.id>>

Records == Range(patients)

CalorieEdge(p) == <<CalorieNode, OutcomeNode(p.id)>>

StartsWith(line, tok) == Len(line) >= 1 /\ line[1] = tok

\* C1: for an identifier that is no node of the graph, retrieve_context
\* returns the single line "Patient {id} not found in knowledge graph." and no
\* evidence; no 'Analyzing' line and no fallback announcement is produced.
C1_NotFound ==
    (pc = "retrieved" /\ qid \notin Nodes(G)) =>
        /\ Len(out.lines) = 1
        /\ out.lines[1] = <<"Patient ">> \o qid \o <<" not found in knowledge graph.">>
        /\ out.evidence = <<>>
        /\ \A k \in 1..Len(out.lines) :
              /\ ~StartsWith(out.lines[k], "Analyzing ")
              /\ out.lines[k] # FallbackLine

\* an unknown identifier has been asked of a graph built from two records
C1_Witness ==
    /\ CsvBuilt
    /\ pc = "retrieved"
    /\ Len(patients) = 2
    /\ qid = <<"nonexistent">>
    /\ qid \notin Nodes(G)

\* C2: for every record for which R1 and R4 both fire, the returned graph has
\* the edge Calorie_Intake_CSV -> <id>_Outcome with relation compensates_for,
\* whatever records precede or follow it.
C2_R1R4Compensates ==
    CsvBuilt =>
        \A p \in Records :
            (/\ p.diet_flexibility_class = "High"
             /\ p.caloric_intake_class = "High"
             /\ p.daily_steps_class = "High"
             /\ p.weight_change_category \in {"Slow", "Increase"}) =>
                /\ has_edge(G, CalorieNode, OutcomeNode(p.id))
                /\ get_edge_data(G, CalorieNode, OutcomeNode(p.id)).relation
                     = "compensates_for"

\* a record with R1 and R4 is followed by a record that writes its own edge
\* out of Calorie_Intake_CSV
C2_Witness ==
    /\ CsvBuilt
    /\ Len(patients) = 2
    /\ R1(patients[1]) /\ R4(patients[1])
    /\ R1(patients[2]) /\ ~R4(patients[2])

\* C3 as stated: at most one edge per ordered pair, and after R1 and then R3
\* or R4 wrote Calorie_Intake_CSV -> <id>_Outcome the edge carries only the
\* later rule's attributes (relation and reason), the effect of R1 being gone.
C3_Original ==
    CsvBuilt =>
        /\ Len(G.edge) = Cardinality(Edges(G))
        /\ \A p \in Records :
              (R1(p) /\ (R3(p) \/ R4(p))) =>
                  DOMAIN G.eattr[CalorieEdge(p)] = {"relation", "reason"}

\* C3 as amended: at most one edge per ordered pair; a later rule that writes
\* an existing pair updates the attributes it sets and keeps the others: after
\* R1 and then R3 or R4 the edge Calorie_Intake_CSV -> <id>_Outcome has the
\* later rule's relation and reason and still has the effect R1 set.
C3_EdgeUpdated ==
    CsvBuilt =>
        /\ Len(G.edge) = Cardinality(Edges(G))
        /\ \A p \in Records :
              (R1(p) /\ (R3(p) \/ R4(p))) =>
                  LET d == G.eattr[CalorieEdge(p)]
                  IN /\ DOMAIN d = {"relation", "reason", "effect"}
                     /\ d.relation = IF R4(p) THEN "compensates_for" ELSE "dominates"
                     /\ d.reason = IF R4(p)
                                   THEN <<"High caloric intake negates exercise benefits">>
                                   ELSE <<"High intake (", ToString(p.caloric_intake),
                                          " cal) dominates outcome">>
                     /\ d.effect = IF p.weight_change_value < -10
                                   THEN "negative" ELSE "neutral"

\* R1 and then R3 wrote the edge of one record, R1 and then R4 that of another
C3_Witness ==
    /\ CsvBuilt
    /\ \E p \in Records : R1(p) /\ R3(p) /\ p.weight_change_value < -10
    /\ \E p \in Records : R1(p) /\ R4(p)

\* C4 as stated: for every patient whose record triggers R1, retrieve_context
\* returns at least one evidence chain whose behavior_relation is "influences".
C4_Original ==
    \A p \in Records :
        (Asked(p) /\ R1(p)) =>
            \E k \in 1..Len(out.evidence) :
                out.evidence[k].behavior_relation = "influences"

\* C4 as amended: for every patient whose record triggers R1, retrieve_context
\* returns at least one evidence chain, and its behavior_relation is the
\* relation the last firing rule left on Calorie_Intake_CSV -> <id>_Outcome:
\* compensates_for if R4 fired, else dominates if R3 fired, else influences.
C4_FinalRelation ==
    \A p \in Records :
        (Asked(p) /\ R1(p)) =>
            \E k \in 1..Len(out.evidence) :
                  out.evidence[k].behavior_relation =
                      IF p.daily_steps_class = "High"
                         /\ p.weight_change_category \in {"Slow", "Increase"}
                      THEN "compensates_for"
                      ELSE IF p.daily_steps_class = "Low" THEN "dominates"
                      ELSE "influences"

\* a patient with R1 alone has been asked about after a patient with R1 and R4
C4_Witness ==
    /\ Len(patients) = 2
    /\ Asked(patients[2])
    /\ R1(patients[2]) /\ ~R3(patients[2]) /\ ~R4(patients[2])
    /\ R1(patients[1]) /\ R4(patients[1])

\* the record of the scenario P1
IsScenarioP1 ==
    /\ Len(patients) = 1
    /\ patients[1].id = "P1"
    /\ patients[1].diet_flexibility_class = "High"
    /\ patients[1].caloric_intake_class = "High"
    /\ patients[1].daily_steps_class = "Low"
    /\ patients[1].weight_change_category = "Slow"
    /\ patients[1].weight_change_value = -3

ScenarioP1Chain(relation) ==
    /\ Len(out.evidence) = 1
    /\ out.evidence[1].preference = <<"P1", "_DietFlexPref">>
    /\ out.evidence[1].behavior = <<"Calorie_Intake_CSV">>
    /\ out.evidence[1].outcome = <<"P1", "_Outcome">>
    /\ out.evidence[1].behavior_relation = relation

\* C5 as stated: the single record of scenario P1 yields exactly one evidence
\* chain (P1_DietFlexPref, Calorie_Intake_CSV, P1_Outcome) with
\* behavior_relation "influences".
C5_Original ==
    (IsScenarioP1 /\ Asked(patients[1])) => ScenarioP1Chain("influences")

\* C5 as amended: the single record of scenario P1 yields exactly one evidence
\* chain (P1_DietFlexPref, Calorie_Intake_CSV, P1_Outcome) with
\* behavior_relation "dominates": R3 fires for it too and is evaluated after R1.
C5_ScenarioP1 ==
    (IsScenarioP1 /\ Asked(patients[1])) => ScenarioP1Chain("dominates")

C5_Witness == IsScenarioP1 /\ Asked(patients[1])

\* C6 as stated: for a patient of a CSV-built graph whose weight-change category
\* is Slow, some returned line mentions the patient identifier and "Slow".
C6_Original ==
    \A p \in Records :
        (Asked(p) /\ p.weight_change_category = "Slow") =>
            \E k \in 1..Len(out.lines) :
                Contains(out.lines[k], p.id) /\ Contains(out.lines[k], "Slow")

\* C6 as amended: for such a patient some returned line mentions the patient
\* identifier and the outcome node <id>_Outcome, and no returned line contains
\* the category text "Slow".
C6_OutcomeNodeNamed ==
    \A p \in Records :
        (Asked(p) /\ p.weight_change_category = "Slow") =>
            /\ \E k \in 1..Len(out.lines) :
                  /\ Contains(out.lines[k], p.id)
                  /\ ContainsSeq(out.lines[k], <<p.id, "_Outcome">>)
                  /\ StartsWith(out.lines[k], "Analyzing ")
            /\ \A k \in 1..Len(out.lines) : ~Contains(out.lines[k], "Slow")

\* the patient of scenario P1 has been asked about
C6_Witness ==
    /\ IsScenarioP1
    /\ Asked(patients[1])
    /\ G.nattr[<<"P1", "_Outcome">>].category = "Slow"

OutEdges(n, relation) ==
    {e \in Edges(G) : e[1] = n /\ Get(G.eattr[e], "relation") = relation}

\* C7: in every graph of build_graph_from_csv, after every pass of its loop,
\* every node of type Patient has exactly one outgoing experiences edge and
\* exactly two outgoing has_preference edges.
C7_PatientEdges ==
    (path \in Paths /\ pc \in {"loop", "built", "retrieved"}) =>
        \A n \in Nodes(G) :
            NodeType(G, n) = "Patient" =>
                /\ Cardinality(OutEdges(n, "experiences")) = 1
                /\ Cardinality(OutEdges(n, "has_preference")) = 2

\* two patients, all four rules fired between them
C7_Witness ==
    /\ CsvBuilt
    /\ Len(patients) = 2
    /\ R1(patients[1]) /\ R4(patients[1])
    /\ R2(patients[2])
    /\ Cardinality({n \in Nodes(G) : NodeType(G, n) = "Patient"}) = 2

\* C8: for every record with diet-flexibility class High and caloric-intake
\* class High the graph has the edge <id>_DietFlexPref -> Calorie_Intake_CSV
\* with relation conflicts_with, from the pass of that record on.
C8_ConflictEdge ==
    (path \in Paths /\ pc \in {"loop", "built", "retrieved"}) =>
        \A k \in 1..Len(patients) :
            (/\ k < idx
             /\ patients[k].diet_flexibility_class = "High"
             /\ patients[k].caloric_intake_class = "High") =>
                /\ has_edge(G, <<patients[k].id, "_DietFlexPref">>, CalorieNode)
                /\ G.eattr[<<<<patients[k].id, "_DietFlexPref">>, CalorieNode>>].relation
                     = "conflicts_with"

\* a record with R1 and R3 has been followed by a record with R1 and R4
C8_Witness ==
    /\ CsvBuilt
    /\ Len(patients) = 2
    /\ R1(patients[1]) /\ R3(patients[1])
    /\ R1(patients[2]) /\ R4(patients[2])

\* C9: for a patient whose record triggers none of R1 to R4, retrieve_context
\* returns lines that include the fallback announcement, and no evidence.
C9_NoRuleFallback ==
    \A p \in Records :
        (Asked(p) /\ ~R1(p) /\ ~R2(p) /\ ~R3(p) /\ ~R4(p)) =>
            /\ out.lines # <<>>
            /\ \E k \in 1..Len(out.lines) :
                  out.lines[k] = <<"No direct preference-behavior conflicts detected. Analyzing other factors...">>
            /\ out.evidence = <<>>

\* a patient without rules has been asked about, next to a patient with R1
C9_Witness ==
    /\ Len(patients) = 2
    /\ Asked(patients[1])
    /\ ~R1(patients[1]) /\ ~R2(patients[1]) /\ ~R3(patients[1]) /\ ~R4(patients[1])
    /\ R1(patients[2])

SameGraph(g, h) ==
    /\ Nodes(g) = Nodes(h)
    /\ Edges(g) = Edges(h)
    /\ g.nattr = h.nattr
    /\ g.eattr = h.eattr

\* C10: a build of a file returns a graph with the nodes, edges and attributes
\* of the first build of that file, whatever was built in between.
C10_SameGraphAgain ==
    (pc = "built" /\ firstG[path] # <<>>) => SameGraph(G, firstG[path][1])

\* a file has been built a second time after a build of the other file
C10_Witness ==
    /\ pc = "built"
    /\ path = "other.csv"
    /\ builds = [p \in Paths |-> IF p = "other.csv" THEN 2 ELSE 1]
    /\ csv["other.csv"] # <<>>
    /\ ~SameGraph(firstG["mok.csv"][1], firstG["other.csv"][1])

\* the lines of a retrieval that are explanations of a conflict chain
ExplanationLines ==
    {k \in 1..Len(out.lines) : StartsWith(out.lines[k], "Patient has preference '")}

\* the lines of a retrieval that are the fallback announcement
FallbackLines == {k \in 1..Len(out.lines) : out.lines[k] = FallbackLine}

\* C11: for a found patient the fallback announcement is among the returned
\* lines exactly when the returned evidence is empty; the fallback adds no
\* evidence: the chains are as many as the explanation lines, and none when
\* the announcement is there, whatever lines follow it.
C11_FallbackIffNoEvidence ==
    (pc = "retrieved" /\ qid \in Nodes(G)) =>
        /\ (FallbackLines # {}) <=> (out.evidence = <<>>)
        /\ Len(out.evidence) = Cardinality(ExplanationLines)
        /\ FallbackLines # {} => FallbackLines = {2} /\ ExplanationLines = {}

\* the fallback has traced a causal edge for a patient with R2 alone, in a
\* graph where another patient has a conflict
C11_Witness ==
    /\ Len(patients) = 2
    /\ Asked(patients[1])
    /\ qid \in Nodes(G)
    /\ R2(patients[1]) /\ ~R1(patients[1])
    /\ R1(patients[2])
    /\ Len(out.lines) = 3
    /\ out.lines[2] = FallbackLine
    /\ out.evidence = <<>>

\* the place of an edge in the order the edges were created
EdgePos(e) == CHOOSE k \in 1..Len(G.edge) : G.edge[k] = e

\* the triples (preference of the patient, successor of it over a
\* conflicts_with edge, outcome of the patient) closed by an edge from the
\* successor to the outcome
Triples(patient_id) ==
    {t \in Nodes(G) \X Nodes(G) \X Nodes(G) :
        /\ <<patient_id, t[1]>> \in Edges(G)
        /\ NodeType(G, t[1]) = "Preference"
        /\ <<t[1], t[2]>> \in Edges(G)
        /\ Get(G.eattr[<<t[1], t[2]>>], "relation") = "conflicts_with"
        /\ <<patient_id, t[3]>> \in Edges(G)
        /\ NodeType(G, t[3]) = "Outcome"
        /\ <<t[2], t[3]>> \in Edges(G)}

\* triple t is visited before triple u by loops nested preference, neighbor,
\* outcome
VisitedBefore(patient_id, t, u) ==
    LET a == <<EdgePos(<<patient_id, t[1]>>), EdgePos(<<t[1], t[2]>>),
               EdgePos(<<patient_id, t[3]>>)>>
        b == <<EdgePos(<<patient_id, u[1]>>), EdgePos(<<u[1], u[2]>>),
               EdgePos(<<patient_id, u[3]>>)>>
    IN \/ a[1] < b[1]
       \/ a[1] = b[1] /\ a[2] < b[2]
       \/ a[1] = b[1] /\ a[2] = b[2] /\ a[3] < b[3]

TripleOf(chain) == <<chain.preference, chain.behavior, chain.outcome>>

\* C12: for a found patient the evidence holds exactly one chain for every
\* triple (preference, conflicts_with successor, outcome) closed by an edge
\* successor -> outcome, in the order of loops nested preference, neighbor,
\* outcome; the k-th chain has the relation stored on that edge and the k-th
\* line after the 'Analyzing' line is its explanation.
C12_ExhaustiveOrdered ==
    (pc = "retrieved" /\ qid \in Nodes(G)) =>
        LET ev == out.evidence
        IN /\ \A k \in 1..Len(ev) :
                 /\ DOMAIN ev[k] = {"preference", "conflict_relation", "behavior",
                                    "behavior_relation", "outcome"}
                 /\ TripleOf(ev[k]) \in Triples(qid)
                 /\ ev[k].conflict_relation = "conflicts_with"
                 /\ ev[k].behavior_relation =
                        Get(G.eattr[<<ev[k].behavior, ev[k].outcome>>], "relation")
           /\ \A t \in Triples(qid) :
                 Cardinality({k \in 1..Len(ev) : TripleOf(ev[k]) = t}) = 1
           /\ \A j, k \in 1..Len(ev) :
                 j < k => VisitedBefore(qid, TripleOf(ev[j]), TripleOf(ev[k]))
           /\ Len(out.lines) >= 1 + Len(ev)
           /\ \A k \in 1..Len(ev) :
                 /\ ContainsSeq(out.lines[k + 1],
                        <<"Patient has preference '">> \o ev[k].preference
                          \o <<"'. This conflicts with managing '">>
                          \o ev[k].behavior \o <<"' (">>)
                 /\ ContainsSeq(out.lines[k + 1],
                        <<"). Unmanaged '">> \o ev[k].behavior
                          \o <<"' ", ev[k].behavior_relation, " '">>
                          \o ev[k].outcome \o <<"'.">>)
           /\ Cardinality(ExplanationLines) = Len(ev)

\* four chains of two preferences, one conflict node and two outcomes, the
\* second preference being the first successor of the patient
C12_Witness ==
    /\ path = "search"
    /\ pc = "retrieved"
    /\ qid = SearchPatient
    /\ Len(out.evidence) = 4
    /\ out.evidence[1].preference = SearchPrefs[2]
    /\ out.evidence[1].outcome = SearchOutcomes[2]
    /\ out.evidence[2].outcome = SearchOutcomes[1]
    /\ out.evidence[3].preference = SearchPrefs[1]

\* the graph of build_graph has been returned
HardcodedBuilt == path = "hardcoded" /\ pc \in {"built", "retrieved"}

\* C13: in the graph of build_graph, Patient_A, Patient_B and Patient_C are
\* nodes of type Patient and each has a complete path preference
\* -conflicts_with-> behavior -> outcome among its own preferences and
\* outcomes; retrieve_context returns for each of them lines and at least one
\* chain, every chain carrying the preference, behavior and outcome of such a
\* path.
C13_ScenarioPatients ==
    HardcodedBuilt =>
        /\ \A s \in ScenarioPatients :
              /\ s \in Nodes(G)
              /\ NodeType(G, s) = "Patient"
              /\ Triples(s) # {}
        /\ (pc = "retrieved" /\ qid \in ScenarioPatients) =>
              /\ out.lines # <<>>
              /\ Len(out.evidence) >= 1
              /\ \A k \in 1..Len(out.evidence) :
                    /\ {"preference", "behavior", "outcome"} \subseteq DOMAIN out.evidence[k]
                    /\ TripleOf(out.evidence[k]) \in Triples(qid)

\* the chain of Patient_C has been returned
C13_Witness ==
    /\ HardcodedBuilt
    /\ pc = "retrieved"
    /\ qid = <<"Patient_C">>
    /\ Len(out.evidence) = 1
    /\ out.evidence[1].preference = <<"Strict_Adherence_Preference">>
    /\ out.evidence[1].behavior = <<"Metabolic_Adaptation">>
    /\ out.evidence[1].outcome = <<"Weight_Plateau">>
    /\ Len(out.lines) = 2

\* the edges that state a conflict
ConflictEdges ==
    {e \in Edges(G) : Get(G.eattr[e], "relation") = "conflicts_with"}

\* C14: in every graph of build_graph and of build_graph_from_csv, at every
\* point of the build and after it, every conflicts_with edge carries a reason
\* attribute, and no line of retrieve_context has the default phrase
\* 'direct conflict'.
C14_ConflictHasReason ==
    /\ \A e \in ConflictEdges : "reason" \in DOMAIN G.eattr[e]
    /\ pc = "retrieved" =>
          \A k \in 1..Len(out.lines) : ~Contains(out.lines[k], "direct conflict")

\* the conflict of a record with R1 and R3 has been explained with its reason
C14_Witness ==
    /\ Len(patients) = 2
    /\ Asked(patients[2])
    /\ R1(patients[2]) /\ R3(patients[2])
    /\ Cardinality(ConflictEdges) = 2
    /\ Len(out.lines) = 2
    /\ ContainsSeq(out.lines[2], <<"' (">> \o R1Reason(patients[2]) \o <<"). Unmanaged '">>)

\* C15: retrieve_context leaves the graph unchanged: over every step in which
\* it returns, for an identifier found or not found, the nodes, the edges and
\* the node and edge attributes after the call equal those before it.
C15_GraphUnchanged ==
    [][pc' = "retrieved" =>
          /\ G'.node = G.node
          /\ G'.edge = G.edge
          /\ G'.nattr = G.nattr
          /\ G'.eattr = G.eattr]_vars

\* a retrieval has walked a graph of several chains
C15_Witness ==
    /\ path = "search"
    /\ pc = "retrieved"
    /\ qid = SearchPatient
    /\ idx = MaxSearchCalls
    /\ Len(out.evidence) >= 2

\* C16: in a batch over one built graph, whatever the order and the
\* interleaving of the steps of the retrievals, every retrieval that has
\* returned has returned the lines and chains of a retrieval of its identifier
\* run alone on the graph, and the graph is the one the batch started with.
C16_OrderIndependent ==
    pc = "batch" =>
        /\ \A k \in DOMAIN batch :
              batch[k].pc = "done" =>
                  batch[k].result = retrieve_context(G, batch[k].id)
        /\ SameGraph(G, firstG[path][1])

\* the second retrieval has returned its chain while the first, of a patient
\* without conflict, is in its loop over the preferences
C16_Witness ==
    /\ pc = "batch"
    /\ Len(patients) = 2
    /\ batch[2].pc = "done"
    /\ Len(batch[2].result.evidence) = 1
    /\ batch[1].pc = "prefs"
    /\ batch[1].i = 2
    /\ ~R1(patients[1])

\* the number of tokens of the first k lines and of a separator after each
RECURSIVE Offset(_, _)
Offset(lines, k) ==
    IF k = 0 THEN 0 ELSE Offset(lines, k - 1) + Len(lines[k]) + 1

\* the prompt is the head, the lines in their order with a newline between
\* two of them, the query mark, the query and the tail
PromptLayout(text, query_text, lines) ==
    LET n == Len(lines)
        ctx == IF n = 0 THEN 0 ELSE Offset(lines, n) - 1
    IN /\ Len(text) = 3 + ctx + Len(query_text)
       /\ text[1] = PromptHead
       /\ \A k \in 1..n :
             /\ \A j \in 1..Len(lines[k]) :
                   text[1 + Offset(lines, k - 1) + j] = lines[k][j]
             /\ k < n => text[1 + Offset(lines, k)] = "\n"
       /\ text[2 + ctx] = PromptQuery
       /\ \A j \in 1..Len(query_text) : text[2 + ctx + j] = query_text[j]
       /\ text[3 + ctx + Len(query_text)] = PromptTail

\* C17: format_prompt returns, for every query and every sequence of lines,
\* the empty one included, one text whose Context block is the lines joined by
\* newline in their order (nothing for no line), with the query unchanged
\* after it; the call changes neither the lines nor the query nor the graph.
C17_PromptLayout ==
    /\ [](pc = "prompted" => PromptLayout(prompt, query, out.lines))
    /\ [][pc' = "prompted" => (out' = out /\ query' = query /\ G' = G)]_vars

\* three lines, one of them empty, and a query that holds the query mark
C17_Witness ==
    /\ pc = "prompted"
    /\ Len(out.lines) = 3
    /\ out.lines[2] = <<>>
    /\ out.lines[1] # out.lines[3]
    /\ query = <<PromptQuery, "Context:">>
    /\ Len(prompt) = 11

\* the first keyword of order that occurs in text, Unknown when none does
FirstKeyword(order, text) ==
    LET found == {k \in 1..Len(order) : Contains(text, order[k])}
    IN IF found = {} THEN "Unknown"
       ELSE order[CHOOSE k \in found : \A j \in found : k <= j]

\* every record made has the category FirstKeyword gives for its text
CategoryByOrder(order) ==
    pc = "processed" =>
        /\ Len(patients) = Len(df)
        /\ \A k \in 1..Len(df) :
              patients[k].weight_change_category = FirstKeyword(order, df[k].Weight)

\* C18 as stated: the category is the first keyword matched in the order
\* Successful, Slow, Increase, Moderate, and Unknown when none matches.
C18_Original == CategoryByOrder(<<"Successful", "Slow", "Increase", "Moderate">>)

\* C18 as amended: the category is the first keyword matched in the order
\* Slow, Successful, Increase, Moderate, and Unknown when none matches; a text
\* with more than one keyword has the category that is earliest in that order.
C18_SlowFirst == CategoryByOrder(<<"Slow", "Successful", "Increase", "Moderate">>)

\* a text with Successful before Slow has been given the category Slow
C18_Witness ==
    /\ pc = "processed"
    /\ df[1].Weight = <<"-0.3", "Successful", "Slow">>
    /\ patients[1].weight_change_category = "Slow"

\* Low below lo, Medium from lo to hi - 1, High from hi
ClassOf(value, lo, hi) ==
    IF value < lo THEN "Low" ELSE IF value <= hi - 1 THEN "Medium" ELSE "High"

\* C19: the three classifiers give a class to every integer, with half-open
\* thresholds: steps Low below 5000, Medium from 5000 to 7999, High from 8000;
\* caloric intake Low below 1700, Medium from 1700 to 2299, High from 2300;
\* dietary flexibility Low below 4, Medium from 4 to 7, High from 8; so R1
\* fires exactly for the records with score >= 8 and intake >= 2300.
C19_Thresholds ==
    pc = "processed" =>
        \A k \in 1..Len(patients) :
            LET p == patients[k]
            IN /\ p.daily_steps = df[k].Steps
               /\ p.caloric_intake = df[k].Calories
               /\ p.diet_flexibility_score = IntOf[df[k].DietFlex[3]]
               /\ p.daily_steps_class = ClassOf(p.daily_steps, 5000, 8000)
               /\ p.caloric_intake_class = ClassOf(p.caloric_intake, 1700, 2300)
               /\ p.diet_flexibility_class = ClassOf(p.diet_flexibility_score, 4, 8)
               /\ R1(p) <=> (p.diet_flexibility_score >= 8 /\ p.caloric_intake >= 2300)

\* a record with every number on a threshold
C19_Witness ==
    /\ pc = "processed"
    /\ patients[1].daily_steps = 8000
    /\ patients[1].daily_steps_class = "High"
    /\ patients[1].caloric_intake = 2300
    /\ patients[1].caloric_intake_class = "High"
    /\ patients[1].diet_flexibility_score = 8
    /\ patients[1].diet_flexibility_class = "High"
    /\ R1(patients[1])

ActivityEdge(p) == <<ActivityNode, OutcomeNode(p.id)>>

\* the edge e is in the graph with that relation, or is not in the graph when
\* the relation is None
EdgeIs(e, relation) ==
    IF relation = None THEN e \notin Edges(G)
    ELSE e \in Edges(G) /\ Get(G.eattr[e], "relation") = relation

\* C20: the rules are all evaluated, in the order R1, R2, R3, R4, and the last
\* rule that writes a pair decides its relation: Calorie_Intake_CSV ->
\* <id>_Outcome is compensates_for if R4 fired, else dominates if R3 fired,
\* else influences if R1 fired, else absent; Activity_Level_CSV ->
\* <id>_Outcome is strongly_supports if R2 fired, insufficient if R3 fired,
\* else absent; R2 and R3 never both fire.
C20_LastRuleDecides ==
    CsvBuilt =>
        \A p \in Records :
            /\ EdgeIs(CalorieEdge(p),
                      IF R4(p) THEN "compensates_for"
                      ELSE IF R3(p) THEN "dominates"
                      ELSE IF R1(p) THEN "influences"
                      ELSE None)
            /\ EdgeIs(ActivityEdge(p),
                      IF R2(p) THEN "strongly_supports"
                      ELSE IF R3(p) THEN "insufficient"
                      ELSE None)
            /\ ~(R2(p) /\ R3(p))
            /\ R1(p) => EdgeIs(<<DietFlexPref(p.id), CalorieNode>>, "conflicts_with")

\* a record with R2 alone, then a record with R1 and R3 but not R4
C20_Witness ==
    /\ CsvBuilt
    /\ Len(patients) = 2
    /\ R2(patients[1]) /\ ~R1(patients[1]) /\ ~R4(patients[1])
    /\ R1(patients[2]) /\ R3(patients[2]) /\ ~R4(patients[2])
    /\ EdgeIs(CalorieEdge(patients[2]), "dominates")
    /\ EdgeIs(CalorieEdge(patients[1]), None)

\* C21: every chain returned names two edges of the graph: (preference,
\* behavior) with relation conflicts_with and (behavior, outcome) with the
\* relation the chain gives as behavior_relation; its preference is a
\* successor of type Preference of the patient asked about and its outcome a
\* successor of type Outcome; so every edge the visualizer highlights exists.
C21_ChainEdgesExist ==
    pc = "retrieved" =>
        /\ \A k \in 1..Len(out.evidence) :
              LET c == out.evidence[k]
              IN /\ has_edge(G, c.preference, c.behavior)
                 /\ Get(get_edge_data(G, c.preference, c.behavior), "relation")
                      = "conflicts_with"
                 /\ has_edge(G, c.behavior, c.outcome)
                 /\ Get(get_edge_data(G, c.behavior, c.outcome), "relation")
                      = c.behavior_relation
                 /\ has_edge(G, qid, c.preference)
                 /\ NodeType(G, c.preference) = "Preference"
                 /\ has_edge(G, qid, c.outcome)
                 /\ NodeType(G, c.outcome) = "Outcome"
        /\ Len(highlighted_edges(out.evidence)) = 2 * Len(out.evidence)
        /\ Range(highlighted_edges(out.evidence)) \subseteq Edges(G)

\* two chains over two conflict nodes, one with a relation written twice
C21_Witness ==
    /\ path = "search"
    /\ pc = "retrieved"
    /\ qid = SearchPatient
    /\ Len(out.evidence) = 2
    /\ out.evidence[1].behavior # out.evidence[2].behavior
    /\ \E k \in 1..2 : out.evidence[k].behavior_relation = "causes"

\* the places of node n in the order of the nodes
Occurrences(n) == {k \in 1..Len(G.node) : G.node[k] = n}

\* C22: for every sequence of records, the empty one included, the graph of
\* build_graph_from_csv holds Activity_Level_CSV, Calorie_Intake_CSV,
\* Weight_Change_Metric and HbA1c_Metric exactly once each, from the creation
\* of the graph on, and no edge starts or ends at one of the two Metric nodes.
C22_SharedNodes ==
    (path \in Paths /\ pc \in {"loop", "built", "retrieved"}) =>
        /\ \A n \in {ActivityNode, CalorieNode, WeightMetricNode, HbA1cMetricNode} :
              Cardinality(Occurrences(n)) = 1
        /\ NodeType(G, WeightMetricNode) = "Metric"
        /\ NodeType(G, HbA1cMetricNode) = "Metric"
        /\ \A e \in Edges(G) :
              /\ e[1] \notin {WeightMetricNode, HbA1cMetricNode}
              /\ e[2] \notin {WeightMetricNode, HbA1cMetricNode}

\* two records that fire all four rules between them: twelve nodes
C22_Witness ==
    /\ CsvBuilt
    /\ Len(patients) = 2
    /\ R1(patients[1]) /\ R3(patients[1])
    /\ R2(patients[2]) /\ R4(patients[2])
    /\ Len(G.node) = 12
    /\ Len(G.edge) = 11

\* the relation the rules leave on Calorie_Intake_CSV -> <id>_Outcome
FinalCalorieRelation(p) ==
    IF R4(p) THEN "compensates_for"
    ELSE IF R3(p) THEN "dominates"
    ELSE IF R1(p) THEN "influences"
    ELSE None

\* C23: in a graph of build_graph_from_csv retrieve_context returns for a
\* patient exactly one chain if R1 fired for its record and none otherwise;
\* the chain is (<id>_DietFlexPref, conflicts_with, Calorie_Intake_CSV, final
\* relation of the Calorie edge, <id>_Outcome); a patient for whom only R2,
\* R3 or R4 fired gets no chain.
C23_OneChainIffR1 ==
    \A p \in Records :
        Asked(p) =>
            out.evidence =
                IF R1(p)
                THEN <<[preference |-> <<p.id, "_DietFlexPref">>,
                        conflict_relation |-> "conflicts_with",
                        behavior |-> <<"Calorie_Intake_CSV">>,
                        behavior_relation |-> FinalCalorieRelation(p),
                        outcome |-> <<p.id, "_Outcome">>]>>
                ELSE <<>>

\* a patient with R2 and R4 but not R1 has been asked about, next to a
\* patient with R1
C23_Witness ==
    /\ Len(patients) = 2
    /\ Asked(patients[2])
    /\ ~R1(patients[2]) /\ R4(patients[2]) /\ R2(patients[2])
    /\ R1(patients[1]) /\ R3(patients[1])
    /\ out.evidence = <<>>

\* C24: retrieval for a patient does not depend on the other records: of two
\* files that hold the same record of patient p, with other records before or
\* after it, the graphs built give for p the same lines and the same chains,
\* the shared nodes Activity_Level_CSV and Calorie_Intake_CSV notwithstanding.
C24_OtherRecordsIrrelevant ==
    (pc = "retrieved" /\ path = "mok.csv" /\ firstG["other.csv"] # <<>>) =>
        \A k \in CommonRows(csv["mok.csv"], csv["other.csv"]) :
            qid = PatientNode(csv["mok.csv"][k].ID) =>
                out = retrieve_context(firstG["other.csv"][1], qid)

\* the fallback of a patient has read the edges into its outcome, in a graph
\* that differs from the first by a record that wrote both shared nodes
C24_Witness ==
    /\ pc = "retrieved"
    /\ path = "mok.csv"
    /\ firstG["other.csv"] # <<>>
    /\ Len(csv["mok.csv"]) = 2
    /\ Len(csv["other.csv"]) = 2
    /\ CommonRows(csv["mok.csv"], csv["other.csv"]) = {2}
    /\ qid = <<"P2">>
    /\ R2(patients[2]) /\ R4(patients[2])
    /\ R1(patients[1]) /\ R3(patients[1])
    /\ Len(out.lines) = 4
    /\ ~SameGraph(G, firstG["other.csv"][1])

\* the line of the fallback for an edge of that relation from a shared node
\* into the outcome of patient id; no line when the relation is None
TraceLine(node, relation, id) ==
    IF relation = None THEN <<>>
    ELSE <<<<"'", node, "' ", relation, " '", id, "_Outcome", "'.">>>>

\* C25: in a graph of build_graph_from_csv, for a patient for whom R1 did not
\* fire, the lines after the announcement are exactly: the line of
\* Activity_Level_CSV if R2 or R3 fired, then the line of Calorie_Intake_CSV
\* if R3 or R4 fired, each with the final relation of its edge; the
\* experiences edge of the patient into the outcome is not listed.
C25_FallbackTrace ==
    \A p \in Records :
        (Asked(p) /\ ~R1(p)) =>
            /\ Len(out.lines) >= 2
            /\ out.lines[2] = FallbackLine
            /\ SubSeq(out.lines, 3, Len(out.lines)) =
                  TraceLine("Activity_Level_CSV",
                            IF R2(p) THEN "strongly_supports"
                            ELSE IF R3(p) THEN "insufficient" ELSE None, p.id)
                  \o TraceLine("Calorie_Intake_CSV",
                               IF R4(p) THEN "compensates_for"
                               ELSE IF R3(p) THEN "dominates" ELSE None, p.id)
            /\ \A k \in 1..Len(out.lines) : ~Contains(out.lines[k], "experiences")

\* the trace of a patient with R3 and without R1: both lines
C25_Witness ==
    /\ Len(patients) = 2
    /\ Asked(patients[2])
    /\ ~R1(patients[2]) /\ R3(patients[2])
    /\ R1(patients[1])
    /\ Len(out.lines) = 4
    /\ Contains(out.lines[3], "insufficient")
    /\ Contains(out.lines[4], "dominates")

\* the identifier asked about is no node of type Patient
NotAPatient == qid \notin Nodes(G) \/ NodeType(G, qid) # "Patient"

\* C26 as stated: for every identifier that is no node of type Patient, nodes
\* of other types included, retrieve_context returns the not-found line and
\* no evidence, and no 'Analyzing' line.
C26_Original ==
    (pc = "retrieved" /\ NotAPatient) =>
        /\ out.lines = <<NotFoundLine(qid)>>
        /\ out.evidence = <<>>
        /\ \A k \in 1..Len(out.lines) : ~StartsWith(out.lines[k], "Analyzing ")

\* C26 as amended: retrieve_context tests only that the identifier is a node.
\* For the identifier of an existing node of another type (Calorie_Intake_CSV,
\* <id>_Outcome) of a built graph it returns no not-found line: the first line
\* is the 'Analyzing' line of that node, the second the fallback
\* announcement, and the evidence is empty; the not-found line is returned
\* exactly for the identifiers that are no node.
C26_AnyNodeAnalysed ==
    pc = "retrieved" =>
        /\ (out.lines = <<NotFoundLine(qid)>>) <=> (qid \notin Nodes(G))
        /\ (qid \in Nodes(G) /\ NodeType(G, qid) # "Patient") =>
              /\ Len(out.lines) >= 2
              /\ StartsWith(out.lines[1], "Analyzing ")
              /\ ContainsSeq(out.lines[1], qid \o <<" who is experiencing: ">>)
              /\ out.lines[2] = FallbackLine
              /\ out.evidence = <<>>

\* Calorie_Intake_CSV has been asked about in a graph where it has edges into
\* the outcomes of two patients
C26_Witness ==
    /\ CsvBuilt
    /\ pc = "retrieved"
    /\ Len(patients) = 2
    /\ R1(patients[1]) /\ R1(patients[2])
    /\ qid = CalorieNode
    /\ ContainsSeq(out.lines[1], <<"P1", "_Outcome", ", ", "P2", "_Outcome">>)

\* the providers whose key is set and whose call returned a content
Succeeding ==
    {pr \in Providers :
        /\ Truthy(IF pr = "ChatOpenAI" THEN llm.env.OPENAI_API_KEY
                  ELSE llm.env.GOOGLE_API_KEY)
        /\ llm.outcome[pr] = "content"}

Configured ==
    {pr \in Providers :
        Truthy(IF pr = "ChatOpenAI" THEN llm.env.OPENAI_API_KEY
               ELSE llm.env.GOOGLE_API_KEY)}

CallOrder == <<"ChatOpenAI", "ChatGoogleGenerativeAI", "simulate_llm_response">>

\* C28: get_llm_response always returns a response text, whatever the
\* providers raise; it invokes OpenAI before Google before the simulation,
\* a provider only if its key is configured, the next one only after the
\* failure of those before; it returns the simulated response when no
\* configured provider succeeds, and after the success of a provider it
\* invokes nothing more and returns the content of that provider.
C28_ProviderFallthrough ==
    pc = "answered" =>
        /\ llm.returned /\ Len(llm.response) = 1
        /\ \A i, j \in 1..Len(llm.calls) :
               i < j => \E a, b \in 1..3 :
                           /\ a < b
                           /\ CallOrder[a] = llm.calls[i]
                           /\ CallOrder[b] = llm.calls[j]
        /\ \A i \in 1..Len(llm.calls) :
               /\ llm.calls[i] \in Providers => llm.calls[i] \in Configured
               /\ i < Len(llm.calls) => llm.calls[i] \notin Succeeding
        /\ \A pr \in Configured :
               pr \in Range(llm.calls)
                 \/ \E i \in 1..Len(llm.calls) : llm.calls[i] \in Succeeding
        /\ IF Succeeding = {}
           THEN /\ llm.calls[Len(llm.calls)] = "simulate_llm_response"
                /\ llm.response = <<simulate_llm_response(prompt)>>
           ELSE /\ llm.calls[Len(llm.calls)] \in Succeeding
                /\ llm.response = <<ContentOf(llm.calls[Len(llm.calls)])>>

\* both keys are set, OpenAI raises and Google answers
C28_Witness ==
    /\ pc = "answered"
    /\ Configured = Providers
    /\ llm.outcome["ChatOpenAI"] = "APIError"
    /\ llm.calls = <<"ChatOpenAI", "ChatGoogleGenerativeAI">>
    /\ llm.response = <<ContentOf("ChatGoogleGenerativeAI")>>

\* the ids of the patient list the selectbox offers
Listed == IF session.patients = <<>> THEN {} ELSE Range(patient_ids(session))

\* C27: whenever retrieval has run on the KG Visualization or the LLM Chat
\* page, every patient id offered for selection is a node of the graph held
\* in session state, and the retrieval did not answer 'not found'.
C27_ListedPatientsInGraph ==
    (pc \in {"kg", "chat"} /\ qid # <<>>) =>
        /\ \A id \in Listed : has_node(session.graph[1], PatientNode(id))
        /\ out.lines # <<NotFoundLine(qid)>>
====
